---- MODULE Spec2Model ----
(***************************************************************************)
(* Model of the collab-claude-code trust engine: the glob matcher, the     *)
(* @collab annotation parser with its scope detector, the trust resolver   *)
(* (src/src/collab.ts), the hook-side copy of the resolver and the         *)
(* pre-edit hook (src/src/hooks/utils.ts), the proposal store with the     *)
(* proposal tools of the MCP server, the trust configuration storage with  *)
(* initializeCollab, the intent store, and tool calls of the server that   *)
(* overlap at their awaits.                                                *)
(*                                                                         *)
(* Strings that the code inspects character by character (paths, glob      *)
(* patterns, regular expression sources) are sequences of one-character    *)
(* strings.  A line of a source file is a sequence of lexical tokens (see  *)
(* the section on annotation parsing).                                     *)
(***************************************************************************)
EXTENDS Integers, Sequences, FiniteSets, TLC

VARIABLES
    op,            \* the operation that produced the current outputs ("init" before any)
    filePath,      \* the path argument: Seq of characters
    pattern,       \* the pattern argument of a direct matchesPattern call
    matched,       \* outcome of matchesPattern: "true", "false", "throw" ("none" before)
    content,       \* the text of the target file (token stream), or Unreadable
    config,        \* the TrustConfig value handed to the resolver / stored in trust.yaml
    lineStart,     \* query line_start, or NoLine when omitted
    lineEnd,       \* query line_end, or NoLine when omitted
    result,        \* the TrustResult returned (NoResult before, Thrown on exception)
    annotations,   \* the list returned by parseAnnotations
    collabDir,     \* pre-edit hook: does .collab exist
    stdin,         \* pre-edit hook: what stdin holds
    trustFile,     \* is .collab/trust.yaml readable
    exitCode,      \* pre-edit hook: process exit code (-1 while not exited)
    proposalFiles, \* .collab/proposals: proposal id |-> the YAML document of <id>.yaml
    configYaml,    \* .collab/config.yaml: "absent", or what the file holds
    arg,           \* the argument of the last storage call or tool call
    reply,         \* what the last storage call or tool call returned
    lastIndex,     \* ATTR_PATTERN.lastIndex, the position the next exec starts from
    calls,         \* tool calls of the server that run concurrently: caller |-> its handler's
                   \* position (pc), locals and answer
    intentFile     \* .collab/intents/<file>.yaml of one source file: "absent", or the YAML list

vars == <<op, filePath, pattern, matched, content, config, lineStart, lineEnd,
          result, annotations, collabDir, stdin, trustFile, exitCode,
          proposalFiles, configYaml, arg, reply, lastIndex, calls, intentFile>>

(***************************************************************************)
(* Bounds                                                                  *)
(***************************************************************************)
MaxPatLen == 3
MaxPathLen == 4
MaxLines == 5
MaxQueryLine == 5
MaxPolicies == 2
MaxRegions == 2
MaxDirLen == 2          \* length of the directory name d of a pattern **/d/**
MaxAnchorPathLen == 5   \* length of the paths matched against **/d/**
MaxCalls == 3           \* parseAnnotations calls on the file under observation
MaxCallers == 3         \* tool calls the server handles concurrently

(***************************************************************************)
(* Generic helpers                                                         *)
(***************************************************************************)
SeqsUpTo(S, n) == UNION {[1..k -> S] : k \in 0..n}

Undefined == "undefined"
NoLine == -1
Unreadable == <<"ENOENT">>

TrustLevels == {"AUTONOMOUS", "SUPERVISED", "SUGGEST_ONLY", "READ_ONLY"}

(***************************************************************************)
(* String.prototype.replace(/\\/g, "/")                                    *)
(***************************************************************************)
normalizeSlashes(s) == [k \in 1..Len(s) |-> IF s[k] = "\\" THEN "/" ELSE s[k]]

endsWith(s, suffix) ==
    /\ Len(suffix) <= Len(s)
    /\ SubSeq(s, Len(s) - Len(suffix) + 1, Len(s)) = suffix

(***************************************************************************)
(* matchesPattern: the three chained String.replace calls                  *)
(***************************************************************************)
\* replaceStarStar with `**` absorbing the separators next to it: `**/d/**` gives `.*d.*`
RECURSIVE replaceStarStar_absorbSlash(_)
replaceStarStar_absorbSlash(p) ==
    IF Len(p) = 0 THEN <<>>
    ELSE IF Len(p) >= 3 /\ p[1] = "*" /\ p[2] = "*" /\ p[3] = "/"
         THEN <<".", "*">> \o replaceStarStar_absorbSlash(SubSeq(p, 4, Len(p)))
    ELSE IF Len(p) >= 3 /\ p[1] = "/" /\ p[2] = "*" /\ p[3] = "*"
         THEN <<".", "*">> \o replaceStarStar_absorbSlash(SubSeq(p, 4, Len(p)))
    ELSE IF Len(p) >= 2 /\ p[1] = "*" /\ p[2] = "*"
         THEN <<".", "*">> \o replaceStarStar_absorbSlash(SubSeq(p, 3, Len(p)))
         ELSE <<p[1]>> \o replaceStarStar_absorbSlash(Tail(p))

RECURSIVE replaceStarStar(_)
replaceStarStar(p) ==
    IF Len(p) = 0 THEN <<>>
    ELSE IF Len(p) >= 2 /\ p[1] = "*" /\ p[2] = "*"
         THEN <<".", "*">> \o replaceStarStar(SubSeq(p, 3, Len(p)))
         ELSE <<p[1]>> \o replaceStarStar(Tail(p))

RECURSIVE replaceStar(_)
replaceStar(p) ==
    IF Len(p) = 0 THEN <<>>
    ELSE IF p[1] = "*"
         THEN <<"[", "^", "/", "]", "*">> \o replaceStar(Tail(p))
         ELSE <<p[1]>> \o replaceStar(Tail(p))

replaceQuestion(p) == [k \in 1..Len(p) |-> IF p[k] = "?" THEN "." ELSE p[k]]

\* const regexPattern = pattern.replace(..).replace(..).replace(..)
regexPattern(p) == replaceQuestion(replaceStar(replaceStarStar(p)))

\* the source handed to new RegExp: `^${regexPattern}$`
regexSource(p) == <<"^">> \o regexPattern(p) \o <<"$">>

(***************************************************************************)
(* new RegExp(source): the part of the ECMAScript pattern grammar that the *)
(* characters of a source can produce.  A compiled expression is a list of *)
(* atoms [neg, set, star]: a character class (negated or not), possibly    *)
(* under a `*` quantifier.  The leading ^ and the trailing $ are the       *)
(* anchors; the list is matched against the whole input.                   *)
(***************************************************************************)
SyntaxError == [ok |-> FALSE, atoms |-> <<>>]

\* index of the first "]" at or after position i, 0 when there is none
RECURSIVE closingBracket(_, _)
closingBracket(src, i) ==
    IF i > Len(src) THEN 0
    ELSE IF src[i] = "]" THEN i
    ELSE closingBracket(src, i + 1)

classAtom(members) ==
    IF Len(members) > 0 /\ members[1] = "^"
    THEN [neg |-> TRUE, set |-> {members[k] : k \in 2..Len(members)}, star |-> FALSE]
    ELSE [neg |-> FALSE, set |-> {members[k] : k \in 1..Len(members)}, star |-> FALSE]

RECURSIVE compileFrom(_, _, _)
compileFrom(src, i, atoms) ==
    IF i > Len(src) THEN [ok |-> TRUE, atoms |-> atoms]
    ELSE LET c == src[i] IN
      CASE c = "[" ->
             LET k == closingBracket(src, i + 1) IN
             IF k = 0 THEN SyntaxError   \* unterminated character class
             ELSE compileFrom(src, k + 1, Append(atoms, classAtom(SubSeq(src, i + 1, k - 1))))
        [] c = "*" ->
             IF Len(atoms) = 0 \/ atoms[Len(atoms)].star
             THEN SyntaxError            \* nothing to repeat
             ELSE compileFrom(src, i + 1,
                    [atoms EXCEPT ![Len(atoms)] = [@ EXCEPT !.star = TRUE]])
        [] c = "." ->
             compileFrom(src, i + 1, Append(atoms, [neg |-> TRUE, set |-> {"\n", "\r"}, star |-> FALSE]))
        [] c = "$" /\ i = Len(src) ->
             [ok |-> TRUE, atoms |-> atoms]
        [] OTHER ->
             compileFrom(src, i + 1, Append(atoms, [neg |-> FALSE, set |-> {c}, star |-> FALSE]))

\* new RegExp(src) for a source that starts with the ^ anchor
newRegExp(src) == compileFrom(src, 2, <<>>)

atomAccepts(a, ch) == IF a.neg THEN ch \notin a.set ELSE ch \in a.set

RECURSIVE matchAt(_, _, _, _)
matchAt(atoms, k, s, j) ==
    IF k > Len(atoms) THEN j > Len(s)
    ELSE IF atoms[k].star
         THEN \/ matchAt(atoms, k + 1, s, j)
              \/ (j <= Len(s) /\ atomAccepts(atoms[k], s[j]) /\ matchAt(atoms, k, s, j + 1))
         ELSE j <= Len(s) /\ atomAccepts(atoms[k], s[j]) /\ matchAt(atoms, k + 1, s, j + 1)

\* regex.test(s) for an anchored expression
regexTest(re, s) == matchAt(re.atoms, 1, s, 1)

\* matchesPattern of collab.ts: "true", "false", or "throw" when new RegExp raises
matchesPattern(path, p) ==
    LET regex == newRegExp(regexSource(p)) IN
    IF ~regex.ok THEN "throw"
    ELSE IF regexTest(regex, path) \/ regexTest(regex, normalizeSlashes(path))
         THEN "true" ELSE "false"

(***************************************************************************)
(* Annotation parsing (collab.ts).  A line is a sequence of tokens:        *)
(*   " "  "\r"                 one whitespace character each (\r is also a *)
(*                             line terminator for `.`)                    *)
(*   "//"  "#"  "/*"  "*"  "*/"  comment punctuation                       *)
(*   "@collab" "@collab:begin" "@collab:end"   the marker words            *)
(*   key=value words (AttrTokens), "{", "}", and "x" for any other code    *)
(* The file content is the token stream with a "\n" token between lines.   *)
(***************************************************************************)
AttrTokens == {"trust=\"READ_ONLY\"", "trust=\"SUGGEST_ONLY\"", "trust=\"SUPERVISED\"",
               "trust=\"AUTONOMOUS\"", "trust=\"BOGUS\"", "owner=\"auth-team\"",
               "owner=\"privacy-team\"", "intent=\"Validate\"",
               "constraints=[\"a\", \"b\"]", "owner=[x]", "reviewer=\"bob\""}

\* ATTR_PATTERN applied to one key=value word: match[1], match[2]||match[3]||match[5], match[4]
attrKey(t) ==
    CASE t \in {"trust=\"READ_ONLY\"", "trust=\"SUGGEST_ONLY\"", "trust=\"SUPERVISED\"",
                "trust=\"AUTONOMOUS\"", "trust=\"BOGUS\""} -> "trust"
      [] t \in {"owner=\"auth-team\"", "owner=\"privacy-team\"", "owner=[x]"} -> "owner"
      [] t = "intent=\"Validate\"" -> "intent"
      [] t = "constraints=[\"a\", \"b\"]" -> "constraints"
      [] OTHER -> "reviewer"

attrValue(t) ==
    CASE t = "trust=\"READ_ONLY\"" -> "READ_ONLY"
      [] t = "trust=\"SUGGEST_ONLY\"" -> "SUGGEST_ONLY"
      [] t = "trust=\"SUPERVISED\"" -> "SUPERVISED"
      [] t = "trust=\"AUTONOMOUS\"" -> "AUTONOMOUS"
      [] t = "trust=\"BOGUS\"" -> "BOGUS"
      [] t = "owner=\"auth-team\"" -> "auth-team"
      [] t = "owner=\"privacy-team\"" -> "privacy-team"
      [] t = "intent=\"Validate\"" -> "Validate"
      [] t = "reviewer=\"bob\"" -> "bob"
      [] OTHER -> Undefined            \* bracketed value: groups 2, 3 and 5 are unset

attrArrayValue(t) ==
    IF t = "constraints=[\"a\", \"b\"]" THEN <<"a", "b">> ELSE <<>>

\* parseAttributesFrom storing whatever value the trust key carries
RECURSIVE parseAttributesFrom_noValidation(_, _, _)
parseAttributesFrom_noValidation(toks, k, res) ==
    IF k > Len(toks) THEN res
    ELSE IF toks[k] \notin AttrTokens THEN parseAttributesFrom_noValidation(toks, k + 1, res)
    ELSE LET key == attrKey(toks[k])
             value == attrValue(toks[k])
             arrayValue == attrArrayValue(toks[k])
             set(f, v) == [x \in DOMAIN res \cup {f} |-> IF x = f THEN v ELSE res[x]]
         IN CASE key = "trust" -> parseAttributesFrom_noValidation(toks, k + 1, set("trust", value))
              [] key = "owner" -> parseAttributesFrom_noValidation(toks, k + 1, set("owner", value))
              [] key = "intent" -> parseAttributesFrom_noValidation(toks, k + 1, set("intent", value))
              [] key = "constraints" ->
                   IF arrayValue # <<>>
                   THEN parseAttributesFrom_noValidation(toks, k + 1, set("constraints", arrayValue))
                   ELSE parseAttributesFrom_noValidation(toks, k + 1, res)
              [] OTHER -> parseAttributesFrom_noValidation(toks, k + 1, res)

\* parseAttributes: the object built by the switch, as a function on the keys it assigned
RECURSIVE parseAttributesFrom(_, _, _)
parseAttributesFrom(toks, k, res) ==
    IF k > Len(toks) THEN res
    ELSE IF toks[k] \notin AttrTokens THEN parseAttributesFrom(toks, k + 1, res)
    ELSE LET key == attrKey(toks[k])
             value == attrValue(toks[k])
             arrayValue == attrArrayValue(toks[k])
             set(f, v) == [x \in DOMAIN res \cup {f} |-> IF x = f THEN v ELSE res[x]]
         IN CASE key = "trust" ->
                   IF value \in {"AUTONOMOUS", "SUPERVISED", "SUGGEST_ONLY", "READ_ONLY"}
                   THEN parseAttributesFrom(toks, k + 1, set("trust", value))
                   ELSE parseAttributesFrom(toks, k + 1, res)
              [] key = "owner" -> parseAttributesFrom(toks, k + 1, set("owner", value))
              [] key = "intent" -> parseAttributesFrom(toks, k + 1, set("intent", value))
              [] key = "constraints" ->
                   IF arrayValue # <<>>
                   THEN parseAttributesFrom(toks, k + 1, set("constraints", arrayValue))
                   ELSE parseAttributesFrom(toks, k + 1, res)
              [] OTHER -> parseAttributesFrom(toks, k + 1, res)

NoAttrs == [x \in {} |-> Undefined]

parseAttributes(toks) == parseAttributesFrom(toks, 1, NoAttrs)

\* Object.assign(target, source) / object spread
objectAssign(a, b) == [x \in DOMAIN a \cup DOMAIN b |-> IF x \in DOMAIN b THEN b[x] ELSE a[x]]

isSpace(t) == t \in {" ", "\r"}
isLineTerminator(t) == t \in {"\r", "\n"}

RECURSIVE trimStart(_)
trimStart(line) ==
    IF Len(line) > 0 /\ isSpace(line[1]) THEN trimStart(Tail(line)) ELSE line

RECURSIVE trimEnd(_)
trimEnd(line) ==
    IF Len(line) > 0 /\ isSpace(line[Len(line)])
    THEN trimEnd(SubSeq(line, 1, Len(line) - 1)) ELSE line

trim(line) == trimEnd(trimStart(line))

allSpace(line, a, b) == \A k \in a..b : isSpace(line[k])
noTerminator(line, a, b) == \A k \in a..b : ~isLineTerminator(line[k])

\* the positions right after a comment opener at p: (?:\/\/|#|\/\*\*?)
afterOpener(line, p) ==
    IF line[p] \in {"//", "#"} THEN {p + 1}
    ELSE IF line[p] = "/*"
         THEN {p + 1} \cup (IF p < Len(line) /\ line[p + 1] = "*" THEN {p + 2} ELSE {})
         ELSE {}

\* \s* : the first index at or after q that is not whitespace
RECURSIVE skipSpace(_, _)
skipSpace(line, q) ==
    IF q <= Len(line) /\ isSpace(line[q]) THEN skipSpace(line, q + 1) ELSE q

\* the splits \s+ (.+?) ... $ after a marker word at m: k whitespace tokens, then at
\* least one token, none of them a line terminator, up to the end of the line
attrSplits(line, m) ==
    {k \in 1..(Len(line) - m - 1) :
        allSpace(line, m + 1, m + k) /\ noTerminator(line, m + k + 1, Len(line))}

Max(S) == CHOOSE x \in S : \A y \in S : y <= x
Min(S) == CHOOSE x \in S : \A y \in S : x <= y

\* opener positions at which ANNOTATION_PATTERN matches
annotationMatches(line) ==
    {p \in 1..Len(line) :
        \E q \in afterOpener(line, p) :
            LET m == skipSpace(line, q) IN
            /\ m <= Len(line)
            /\ line[m] \in {"@collab", "@collab:begin", "@collab:end"}
            /\ attrSplits(line, m) # {}}

\* ANNOTATION_PATTERN.exec(line): found, and capture group 1
ANNOTATION_PATTERN(line) ==
    IF annotationMatches(line) = {} THEN [found |-> FALSE, group1 |-> <<>>]
    ELSE LET p == Min(annotationMatches(line))
             q == Min({x \in afterOpener(line, p) :
                        LET m == skipSpace(line, x) IN
                        /\ m <= Len(line)
                        /\ line[m] \in {"@collab", "@collab:begin", "@collab:end"}
                        /\ attrSplits(line, m) # {}})
             m == skipSpace(line, q)
             k == Max(attrSplits(line, m))
             rest == SubSeq(line, m + k + 1, Len(line))
         IN [found |-> TRUE,
             group1 |-> IF Len(rest) >= 2 /\ rest[Len(rest)] = "*/"
                        THEN SubSeq(rest, 1, Len(rest) - 1) ELSE rest]

\* the (.+) of BLOCK_BEGIN_PATTERN: the longest run without a line terminator from a
RECURSIVE runEnd(_, _)
runEnd(line, a) ==
    IF a <= Len(line) /\ ~isLineTerminator(line[a]) THEN runEnd(line, a + 1) ELSE a - 1

blockBeginSplits(line, m) ==
    {k \in 1..(Len(line) - m - 1) :
        allSpace(line, m + 1, m + k) /\ ~isLineTerminator(line[m + k + 1])}

blockBeginMatches(line) ==
    {m \in 1..Len(line) : line[m] = "@collab:begin" /\ blockBeginSplits(line, m) # {}}

\* BLOCK_BEGIN_PATTERN.exec(line)
BLOCK_BEGIN_PATTERN(line) ==
    IF blockBeginMatches(line) = {} THEN [found |-> FALSE, group1 |-> <<>>]
    ELSE LET m == Min(blockBeginMatches(line))
             k == Max(blockBeginSplits(line, m))
         IN [found |-> TRUE,
             group1 |-> SubSeq(line, m + k + 1, runEnd(line, m + k + 1))]

\* BLOCK_END_PATTERN.test(line)
BLOCK_END_PATTERN(line) == \E m \in 1..Len(line) : line[m] = "@collab:end"

(***************************************************************************)
(* getFileExtension: path.extname(filePath).toLowerCase() without the dot  *)
(***************************************************************************)
lastIndexOf(s, ch) ==
    LET hits == {k \in 1..Len(s) : s[k] = ch} IN IF hits = {} THEN 0 ELSE Max(hits)

toLowerCase(s) ==
    [k \in 1..Len(s) |->
        CASE s[k] = "T" -> "t" [] s[k] = "S" -> "s" [] s[k] = "P" -> "p" [] s[k] = "Y" -> "y"
          [] s[k] = "R" -> "r" [] s[k] = "B" -> "b" [] OTHER -> s[k]]

extname(path) ==
    LET base == SubSeq(path, lastIndexOf(path, "/") + 1, Len(path))
        dot == lastIndexOf(base, ".")
    IN IF dot <= 1 THEN <<>> ELSE SubSeq(base, dot, Len(base))

getFileExtension(path) ==
    LET ext == toLowerCase(extname(path)) IN
    IF Len(ext) > 0 /\ ext[1] = "." THEN Tail(ext) ELSE ext

PyExt == <<"p", "y">>
BraceExts == {<<"g", "o">>, <<"r", "s">>, <<"j", "a", "v", "a">>, <<"t", "s">>,
              <<"t", "s", "x">>, <<"j", "s">>, <<"j", "s", "x">>}

(***************************************************************************)
(* detectAnnotationScope.  Indices are 0-based as in the code: the line at *)
(* index i is lines[i + 1].                                                *)
(***************************************************************************)
\* line.length - line.trimStart().length
indentOf(line) == Len(line) - Len(trimStart(line))

\* the test of the definition-line loop: non-empty after trim and not starting
\* with "//", "#", "/*" or "*"
isDefinitionLine(raw) ==
    LET line == trim(raw) IN
    /\ Len(line) > 0
    /\ line[1] \notin {"//", "#", "/*", "*", "*/"}

RECURSIVE findDefLine(_, _)
findDefLine(lines, defLineIndex) ==
    IF defLineIndex < Len(lines) /\ ~isDefinitionLine(lines[defLineIndex + 1])
    THEN findDefLine(lines, defLineIndex + 1)
    ELSE defLineIndex

\* pyScan ending the block only at a line indented strictly less than the definition line
RECURSIVE pyScan_strictLess(_, _, _, _)
pyScan_strictLess(lines, i, baseIndent, endLineIndex) ==
    IF i >= Len(lines) THEN endLineIndex
    ELSE LET line == lines[i + 1] IN
         IF trim(line) = <<>> THEN pyScan_strictLess(lines, i + 1, baseIndent, endLineIndex)
         ELSE IF indentOf(line) < baseIndent THEN endLineIndex
         ELSE pyScan_strictLess(lines, i + 1, baseIndent, i)

\* the for loop of the Python branch; returns endLineIndex
RECURSIVE pyScan(_, _, _, _)
pyScan(lines, i, baseIndent, endLineIndex) ==
    IF i >= Len(lines) THEN endLineIndex
    ELSE LET line == lines[i + 1] IN
         IF trim(line) = <<>> THEN pyScan(lines, i + 1, baseIndent, endLineIndex)
         ELSE IF indentOf(line) <= baseIndent THEN endLineIndex
         ELSE pyScan(lines, i + 1, baseIndent, i)

\* countBraces without nesting: a '}' closes everything that is open
RECURSIVE countBraces_flat(_, _, _)
countBraces_flat(line, k, st) ==
    IF k > Len(line) THEN st
    ELSE IF line[k] = "{"
         THEN countBraces_flat(line, k + 1, [braceCount |-> st.braceCount + 1, foundOpenBrace |-> TRUE])
         ELSE IF line[k] = "}"
              THEN countBraces_flat(line, k + 1, [st EXCEPT !.braceCount = 0])
              ELSE countBraces_flat(line, k + 1, st)

\* the inner for-of loop over the characters of one line
RECURSIVE countBraces(_, _, _)
countBraces(line, k, st) ==
    IF k > Len(line) THEN st
    ELSE IF line[k] = "{"
         THEN countBraces(line, k + 1, [braceCount |-> st.braceCount + 1, foundOpenBrace |-> TRUE])
         ELSE IF line[k] = "}"
              THEN countBraces(line, k + 1, [st EXCEPT !.braceCount = @ - 1])
              ELSE countBraces(line, k + 1, st)

\* braceScan extending the scope to the last line when the braces never balance
RECURSIVE braceScan_toEndOfFile(_, _, _, _)
braceScan_toEndOfFile(lines, i, st, endLineIndex) ==
    IF i >= Len(lines) THEN Len(lines) - 1
    ELSE LET after == countBraces(lines[i + 1], 1, st) IN
         IF after.foundOpenBrace /\ after.braceCount = 0 THEN i
         ELSE braceScan_toEndOfFile(lines, i + 1, after, endLineIndex)

\* the outer for loop of the brace branch; returns endLineIndex
RECURSIVE braceScan(_, _, _, _)
braceScan(lines, i, st, endLineIndex) ==
    IF i >= Len(lines) THEN endLineIndex
    ELSE LET after == countBraces(lines[i + 1], 1, st) IN
         IF after.foundOpenBrace /\ after.braceCount = 0 THEN i
         ELSE braceScan(lines, i + 1, after, endLineIndex)

detectAnnotationScope(lines, annotationLineIndex, fileExt) ==
    LET startLine == annotationLineIndex + 1
        defLineIndex == findDefLine(lines, annotationLineIndex + 1)
    IN IF defLineIndex >= Len(lines) THEN [start |-> startLine, end |-> startLine]
       ELSE IF fileExt = PyExt
            THEN [start |-> defLineIndex + 1,
                  end |-> pyScan(lines, defLineIndex + 1,
                                 indentOf(lines[defLineIndex + 1]), defLineIndex) + 1]
       ELSE IF fileExt \in BraceExts
            THEN [start |-> defLineIndex + 1,
                  end |-> braceScan(lines, defLineIndex,
                                    [braceCount |-> 0, foundOpenBrace |-> FALSE],
                                    defLineIndex) + 1]
       ELSE [start |-> defLineIndex + 1, end |-> defLineIndex + 1]

(***************************************************************************)
(* parseAnnotations                                                        *)
(***************************************************************************)
\* content.split("\n")
RECURSIVE splitLF(_, _)
splitLF(text, cur) ==
    IF Len(text) = 0 THEN <<cur>>
    ELSE IF text[1] = "\n" THEN <<cur>> \o splitLF(Tail(text), <<>>)
    ELSE splitLF(Tail(text), Append(cur, text[1]))

attrOr(attrs, key, dflt) == IF key \in DOMAIN attrs THEN attrs[key] ELSE dflt

\* a ParsedAnnotation: absent string fields are Undefined, absent constraints <<>>
mkAnnotation(attrs, ls, le) ==
    [trust |-> attrOr(attrs, "trust", Undefined),
     owner |-> attrOr(attrs, "owner", Undefined),
     intent |-> attrOr(attrs, "intent", Undefined),
     constraints |-> attrOr(attrs, "constraints", <<>>),
     line_start |-> ls, line_end |-> le]

\* findBlockEnd closing the block at the last @collab:end of the file, not the first
RECURSIVE findBlockEnd_last(_, _)
findBlockEnd_last(lines, j) ==
    IF j >= Len(lines) THEN -1
    ELSE LET later == findBlockEnd_last(lines, j + 1) IN
         IF later >= 0 THEN later
         ELSE IF BLOCK_END_PATTERN(lines[j + 1]) THEN j ELSE -1

\* for (j = i + 1; ...) if (BLOCK_END_PATTERN.test(lines[j])): index of the end line, -1 if none
RECURSIVE findBlockEnd(_, _)
findBlockEnd(lines, j) ==
    IF j >= Len(lines) THEN -1
    ELSE IF BLOCK_END_PATTERN(lines[j + 1]) THEN j
    ELSE findBlockEnd(lines, j + 1)

\* collectMarkers keeping the value of the first line that gives a key
RECURSIVE collectMarkers_firstWins(_, _, _)
collectMarkers_firstWins(lines, j, acc) ==
    IF j >= Len(lines) THEN acc
    ELSE LET nextMatch == ANNOTATION_PATTERN(lines[j + 1]) IN
         IF /\ nextMatch.found
            /\ ~BLOCK_BEGIN_PATTERN(lines[j + 1]).found
            /\ ~BLOCK_END_PATTERN(lines[j + 1])
         THEN collectMarkers_firstWins(lines, j + 1,
                [collectedAttrs |-> objectAssign(parseAttributes(nextMatch.group1), acc.collectedAttrs),
                 lastAnnotationLine |-> j])
         ELSE acc

\* the loop collecting consecutive @collab lines
RECURSIVE collectMarkers(_, _, _)
collectMarkers(lines, j, acc) ==
    IF j >= Len(lines) THEN acc
    ELSE LET nextMatch == ANNOTATION_PATTERN(lines[j + 1]) IN
         IF /\ nextMatch.found
            /\ ~BLOCK_BEGIN_PATTERN(lines[j + 1]).found
            /\ ~BLOCK_END_PATTERN(lines[j + 1])
         THEN collectMarkers(lines, j + 1,
                [collectedAttrs |-> objectAssign(acc.collectedAttrs, parseAttributes(nextMatch.group1)),
                 lastAnnotationLine |-> j])
         ELSE acc

\* the while loop of parseAnnotations
RECURSIVE parseLoop(_, _, _, _)
parseLoop(lines, i, fileExt, anns) ==
    IF i >= Len(lines) THEN anns
    ELSE LET line == lines[i + 1]
             blockBeginMatch == BLOCK_BEGIN_PATTERN(line)
             match == ANNOTATION_PATTERN(line)
         IN IF blockBeginMatch.found
            THEN LET attrs == parseAttributes(blockBeginMatch.group1)
                     blockStart == i + 1
                     j == findBlockEnd(lines, i + 1)
                     blockEnd == IF j >= 0 THEN j ELSE blockStart
                     iNext == IF j >= 0 THEN j ELSE i
                 IN parseLoop(lines, iNext + 1, fileExt,
                              Append(anns, mkAnnotation(attrs, blockStart + 1, blockEnd)))
            ELSE IF match.found /\ ~BLOCK_END_PATTERN(line)
            THEN LET c == collectMarkers(lines, i + 1,
                            [collectedAttrs |-> parseAttributes(match.group1),
                             lastAnnotationLine |-> i])
                     scope == detectAnnotationScope(lines, c.lastAnnotationLine, fileExt)
                 IN parseLoop(lines, c.lastAnnotationLine + 1, fileExt,
                              Append(anns, mkAnnotation(c.collectedAttrs, scope.start, scope.end)))
            ELSE parseLoop(lines, i + 1, fileExt, anns)

\* parseAnnotations(filePath) on a file system where filePath holds `text`
parseAnnotations(path, text) ==
    IF text = Unreadable THEN <<>>       \* readFile rejects; the catch block swallows it
    ELSE parseLoop(splitLF(text, <<>>), 0, getFileExtension(path), <<>>)

(***************************************************************************)
(* The parser with the state of ATTR_PATTERN.  The expression carries the  *)
(* g flag, so exec starts at lastIndex and stores the end of its match     *)
(* there; a failed exec stores 0.  Here lastIndex counts tokens: exec from *)
(* position `from` finds the first key=value word after the from-th token. *)
(* The operators return the value computed and the lastIndex left behind.  *)
(***************************************************************************)
\* parseAttributes leaving the loop as soon as a valid trust value has been stored
parseAttributesExec_breakOnTrust(toks, from) ==
    LET hits == {k \in (from + 1)..Len(toks) :
                    /\ toks[k] \in AttrTokens
                    /\ attrKey(toks[k]) = "trust"
                    /\ attrValue(toks[k]) \in TrustLevels}
    IN IF hits = {}
       THEN [result |-> parseAttributesFrom(toks, from + 1, NoAttrs), lastIndex |-> 0]
       ELSE [result |-> parseAttributesFrom(SubSeq(toks, 1, Min(hits)), from + 1, NoAttrs),
             lastIndex |-> Min(hits)]

\* while ((match = ATTR_PATTERN.exec(attrString)) !== null): the matches after `from`
\* are processed in order, and the exec that returns null resets lastIndex
parseAttributesExec(toks, from) ==
    [result |-> parseAttributesFrom(toks, from + 1, NoAttrs), lastIndex |-> 0]

RECURSIVE collectMarkersExec(_, _, _)
collectMarkersExec(lines, j, acc) ==
    IF j >= Len(lines) THEN acc
    ELSE LET nextMatch == ANNOTATION_PATTERN(lines[j + 1]) IN
         IF /\ nextMatch.found
            /\ ~BLOCK_BEGIN_PATTERN(lines[j + 1]).found
            /\ ~BLOCK_END_PATTERN(lines[j + 1])
         THEN LET a == parseAttributesExec(nextMatch.group1, acc.lastIndex) IN
              collectMarkersExec(lines, j + 1,
                [collectedAttrs |-> objectAssign(acc.collectedAttrs, a.result),
                 lastAnnotationLine |-> j,
                 lastIndex |-> a.lastIndex])
         ELSE acc

RECURSIVE parseLoopExec(_, _, _, _, _)
parseLoopExec(lines, i, fileExt, anns, from) ==
    IF i >= Len(lines) THEN [annotations |-> anns, lastIndex |-> from]
    ELSE LET line == lines[i + 1]
             blockBeginMatch == BLOCK_BEGIN_PATTERN(line)
             match == ANNOTATION_PATTERN(line)
         IN IF blockBeginMatch.found
            THEN LET a == parseAttributesExec(blockBeginMatch.group1, from)
                     blockStart == i + 1
                     j == findBlockEnd(lines, i + 1)
                     blockEnd == IF j >= 0 THEN j ELSE blockStart
                     iNext == IF j >= 0 THEN j ELSE i
                 IN parseLoopExec(lines, iNext + 1, fileExt,
                                  Append(anns, mkAnnotation(a.result, blockStart + 1, blockEnd)),
                                  a.lastIndex)
            ELSE IF match.found /\ ~BLOCK_END_PATTERN(line)
            THEN LET a == parseAttributesExec(match.group1, from)
                     c == collectMarkersExec(lines, i + 1,
                            [collectedAttrs |-> a.result,
                             lastAnnotationLine |-> i,
                             lastIndex |-> a.lastIndex])
                     scope == detectAnnotationScope(lines, c.lastAnnotationLine, fileExt)
                 IN parseLoopExec(lines, c.lastAnnotationLine + 1, fileExt,
                                  Append(anns, mkAnnotation(c.collectedAttrs, scope.start, scope.end)),
                                  c.lastIndex)
            ELSE parseLoopExec(lines, i + 1, fileExt, anns, from)

\* parseAnnotations(filePath) called while ATTR_PATTERN.lastIndex is `from`
parseAnnotationsExec(path, text, from) ==
    IF text = Unreadable THEN [annotations |-> <<>>, lastIndex |-> from]
    ELSE parseLoopExec(splitLF(text, <<>>), 0, getFileExtension(path), <<>>, from)

(***************************************************************************)
(* Trust resolution (collab.ts).  A TrustConfig is                         *)
(*   [default_trust, policies : Seq([pattern, trust, owner, reason]),      *)
(*    regions : Seq([file, line_start, line_end, trust, reason])]          *)
(* An absent `regions` is the empty list (both skip the region loop).      *)
(***************************************************************************)
mkResult(level, reason, owner, intent, constraints, source) ==
    [level |-> level, reason |-> reason, owner |-> owner, intent |-> intent,
     constraints |-> constraints, source |-> source]

NoResult == mkResult("none", Undefined, Undefined, Undefined, <<>>, "none")
\* the call did not return: an exception propagated to the caller
Thrown == mkResult("none", Undefined, Undefined, Undefined, <<>>, "throw")

\* lineStart <= x.line_end && (lineEnd ?? lineStart) >= x.line_start
overlaps(ls, le, x) ==
    LET end == IF le = NoLine THEN ls ELSE le IN
    ls <= x.line_end /\ end >= x.line_start

\* tier 1: the for loop over the parsed annotations; NoResult when it falls through
RECURSIVE annotationTier(_, _, _, _)
annotationTier(anns, k, ls, le) ==
    IF k > Len(anns) THEN NoResult
    ELSE IF overlaps(ls, le, anns[k]) /\ anns[k].trust # Undefined
         THEN mkResult(anns[k].trust, "Inline @collab annotation", anns[k].owner,
                       anns[k].intent, anns[k].constraints, "annotation")
         ELSE annotationTier(anns, k + 1, ls, le)

regionFileMatches(normalizedPath, region) ==
    LET regionFile == normalizeSlashes(region.file) IN
    endsWith(normalizedPath, regionFile) \/ normalizedPath = regionFile

\* tier 2: the for loop over config.regions
RECURSIVE regionTier(_, _, _, _, _, _)
regionTier(regions, k, normalizedPath, ls, le, source) ==
    IF k > Len(regions) THEN NoResult
    ELSE IF regionFileMatches(normalizedPath, regions[k]) /\ overlaps(ls, le, regions[k])
         THEN mkResult(regions[k].trust, regions[k].reason, Undefined, Undefined, <<>>, source)
         ELSE regionTier(regions, k + 1, normalizedPath, ls, le, source)

\* policyTier letting a later matching policy replace an earlier one
RECURSIVE policyTier_lastMatch(_, _, _, _, _)
policyTier_lastMatch(cfg, k, normalizedPath, psource, dsource) ==
    IF k > Len(cfg.policies)
    THEN mkResult(cfg.default_trust, "Default trust level", Undefined, Undefined, <<>>, dsource)
    ELSE LET m == matchesPattern(normalizedPath, cfg.policies[k].pattern)
             later == policyTier_lastMatch(cfg, k + 1, normalizedPath, psource, dsource)
         IN IF m = "throw" THEN Thrown
            ELSE IF m = "true" /\ later.source # psource
                 THEN mkResult(cfg.policies[k].trust, cfg.policies[k].reason,
                               cfg.policies[k].owner, Undefined, <<>>, psource)
                 ELSE later

\* policyTier falling back to SUPERVISED instead of config.default_trust
RECURSIVE policyTier_fixedDefault(_, _, _, _, _)
policyTier_fixedDefault(cfg, k, normalizedPath, psource, dsource) ==
    IF k > Len(cfg.policies)
    THEN mkResult("SUPERVISED", "Default trust level", Undefined, Undefined, <<>>, dsource)
    ELSE LET m == matchesPattern(normalizedPath, cfg.policies[k].pattern) IN
         IF m = "throw" THEN Thrown
         ELSE IF m = "true"
              THEN mkResult(cfg.policies[k].trust, cfg.policies[k].reason,
                            cfg.policies[k].owner, Undefined, <<>>, psource)
              ELSE policyTier_fixedDefault(cfg, k + 1, normalizedPath, psource, dsource)

\* tiers 3 and 4: the for loop over config.policies, then the default
RECURSIVE policyTier(_, _, _, _, _)
policyTier(cfg, k, normalizedPath, psource, dsource) ==
    IF k > Len(cfg.policies)
    THEN mkResult(cfg.default_trust, "Default trust level", Undefined, Undefined, <<>>, dsource)
    ELSE LET m == matchesPattern(normalizedPath, cfg.policies[k].pattern) IN
         IF m = "throw" THEN Thrown
         ELSE IF m = "true"
              THEN mkResult(cfg.policies[k].trust, cfg.policies[k].reason,
                            cfg.policies[k].owner, Undefined, <<>>, psource)
              ELSE policyTier(cfg, k + 1, normalizedPath, psource, dsource)

\* getTrustLevelWithAnnotations consulting the regions before the annotations
getTrustLevelWithAnnotations_regionFirst(cfg, path, text, ls, le) ==
    LET normalizedPath == normalizeSlashes(path)
        byAnnotation == IF ls # NoLine
                        THEN annotationTier(parseAnnotations(path, text), 1, ls, le)
                        ELSE NoResult
        byRegion == IF ls # NoLine
                    THEN regionTier(cfg.regions, 1, normalizedPath, ls, le, "region")
                    ELSE NoResult
    IN IF byRegion # NoResult THEN byRegion
       ELSE IF byAnnotation # NoResult THEN byAnnotation
       ELSE policyTier(cfg, 1, normalizedPath, "policy", "default")

\* getTrustLevelWithAnnotations without the lineStart guard on the region tier: a
\* missing start line is taken as line 1
getTrustLevelWithAnnotations_regionsAlways(cfg, path, text, ls, le) ==
    LET normalizedPath == normalizeSlashes(path)
        byAnnotation == IF ls # NoLine
                        THEN annotationTier(parseAnnotations(path, text), 1, ls, le)
                        ELSE NoResult
        byRegion == regionTier(cfg.regions, 1, normalizedPath,
                               IF ls = NoLine THEN 1 ELSE ls, le, "region")
    IN IF byAnnotation # NoResult THEN byAnnotation
       ELSE IF byRegion # NoResult THEN byRegion
       ELSE policyTier(cfg, 1, normalizedPath, "policy", "default")

\* getTrustLevelWithAnnotations going straight to the policies when the file yields
\* no annotation
getTrustLevelWithAnnotations_emptySkipsRegions(cfg, path, text, ls, le) ==
    LET normalizedPath == normalizeSlashes(path)
        anns == IF ls # NoLine THEN parseAnnotations(path, text) ELSE <<>>
        byAnnotation == annotationTier(anns, 1, ls, le)
        byRegion == IF ls # NoLine /\ anns # <<>>
                    THEN regionTier(cfg.regions, 1, normalizedPath, ls, le, "region")
                    ELSE NoResult
    IN IF byAnnotation # NoResult THEN byAnnotation
       ELSE IF byRegion # NoResult THEN byRegion
       ELSE policyTier(cfg, 1, normalizedPath, "policy", "default")

getTrustLevelWithAnnotations(cfg, path, text, ls, le) ==
    LET normalizedPath == normalizeSlashes(path)
        byAnnotation == IF ls # NoLine
                        THEN annotationTier(parseAnnotations(path, text), 1, ls, le)
                        ELSE NoResult
        byRegion == IF ls # NoLine
                    THEN regionTier(cfg.regions, 1, normalizedPath, ls, le, "region")
                    ELSE NoResult
    IN IF byAnnotation # NoResult THEN byAnnotation
       ELSE IF byRegion # NoResult THEN byRegion
       ELSE policyTier(cfg, 1, normalizedPath, "policy", "default")

getTrustLevel(cfg, path, ls, le) ==
    LET normalizedPath == normalizeSlashes(path)
        byRegion == IF ls # NoLine
                    THEN regionTier(cfg.regions, 1, normalizedPath, ls, le, "region")
                    ELSE NoResult
    IN IF byRegion # NoResult THEN byRegion
       ELSE policyTier(cfg, 1, normalizedPath, "policy", "default")

\* getTrustLevelWithAnnotations called while ATTR_PATTERN.lastIndex is `from`: tier 1 on
\* the annotations parsed now, then the tiers that do not read the file
getTrustLevelWithAnnotationsExec(cfg, path, text, ls, le, from) ==
    IF ls = NoLine
    THEN [result |-> getTrustLevelWithAnnotations(cfg, path, Unreadable, ls, le), lastIndex |-> from]
    ELSE LET decide(parsed) ==
                 LET byAnnotation == annotationTier(parsed.annotations, 1, ls, le) IN
                 [result |-> IF byAnnotation # NoResult THEN byAnnotation
                             ELSE getTrustLevelWithAnnotations(cfg, path, Unreadable, ls, le),
                  lastIndex |-> parsed.lastIndex]
         IN CHOOSE r \in {decide(parsed) : parsed \in {parseAnnotationsExec(path, text, from)}} : TRUE

(***************************************************************************)
(* The hook-side copies (hooks/utils.ts): results carry no source tag      *)
(***************************************************************************)
hook_matchesPattern(path, p) ==
    LET regex == newRegExp(regexSource(p)) IN
    IF ~regex.ok THEN "throw"
    ELSE IF regexTest(regex, path) \/ regexTest(regex, normalizeSlashes(path))
         THEN "true" ELSE "false"

RECURSIVE hook_policyTier(_, _, _)
hook_policyTier(cfg, k, normalizedPath) ==
    IF k > Len(cfg.policies)
    THEN mkResult(cfg.default_trust, "Default trust level", Undefined, Undefined, <<>>, Undefined)
    ELSE LET m == hook_matchesPattern(normalizedPath, cfg.policies[k].pattern) IN
         IF m = "throw" THEN Thrown
         ELSE IF m = "true"
              THEN mkResult(cfg.policies[k].trust, cfg.policies[k].reason,
                            cfg.policies[k].owner, Undefined, <<>>, Undefined)
              ELSE hook_policyTier(cfg, k + 1, normalizedPath)

\* the region loop of the hook's getTrustLevel
RECURSIVE hook_regionTier(_, _, _, _, _)
hook_regionTier(regions, k, normalizedPath, ls, le) ==
    IF k > Len(regions) THEN NoResult
    ELSE LET regionFile == normalizeSlashes(regions[k].file)
             end == IF le = NoLine THEN ls ELSE le
         IN IF /\ (endsWith(normalizedPath, regionFile) \/ normalizedPath = regionFile)
               /\ ls <= regions[k].line_end /\ end >= regions[k].line_start
            THEN mkResult(regions[k].trust, regions[k].reason, Undefined, Undefined, <<>>, Undefined)
            ELSE hook_regionTier(regions, k + 1, normalizedPath, ls, le)

\* the hook's getTrustLevel consulting the policies before the regions
hook_getTrustLevel_policyFirst(cfg, path, ls, le) ==
    LET normalizedPath == normalizeSlashes(path)
        byPolicy == hook_policyTier([cfg EXCEPT !.default_trust = "none"], 1, normalizedPath)
        byRegion == IF ls # NoLine
                    THEN hook_regionTier(cfg.regions, 1, normalizedPath, ls, le)
                    ELSE NoResult
    IN IF byPolicy.level # "none" \/ byPolicy = Thrown THEN byPolicy
       ELSE IF byRegion # NoResult THEN byRegion
       ELSE hook_policyTier(cfg, 1, normalizedPath)

hook_getTrustLevel(cfg, path, ls, le) ==
    LET normalizedPath == normalizeSlashes(path)
        byRegion == IF ls # NoLine
                    THEN hook_regionTier(cfg.regions, 1, normalizedPath, ls, le)
                    ELSE NoResult
    IN IF byRegion # NoResult THEN byRegion
       ELSE hook_policyTier(cfg, 1, normalizedPath)

\* loadTrustConfig of collab.ts: the stored config, or the built-in default
DefaultConfig == [default_trust |-> "SUPERVISED", policies |-> <<>>, regions |-> <<>>]
loadTrustConfig(readable, stored) == IF readable THEN stored ELSE DefaultConfig

\* main() blocking SUGGEST_ONLY files as well as READ_ONLY ones
preEditMain_blockSuggestOnly(dirExists, input, readable, stored, path) ==
    IF ~dirExists \/ input # "edit" \/ ~readable THEN [code |-> 0, trust |-> NoResult]
    ELSE LET trust == hook_getTrustLevel(stored, path, NoLine, NoLine) IN
         IF trust = Thrown THEN [code |-> 0, trust |-> Thrown]
         ELSE IF trust.level \in {"READ_ONLY", "SUGGEST_ONLY"} THEN [code |-> 1, trust |-> trust]
         ELSE [code |-> 0, trust |-> trust]

\* main() of the pre-edit hook: the exit code and the TrustResult it computed
preEditMain(dirExists, input, readable, stored, path) ==
    IF ~dirExists THEN [code |-> 0, trust |-> NoResult]
    ELSE IF input = "empty" THEN [code |-> 0, trust |-> NoResult]
    ELSE IF input = "garbage" THEN [code |-> 0, trust |-> NoResult]
    ELSE IF input = "nopath" THEN [code |-> 0, trust |-> NoResult]
    ELSE IF ~readable THEN [code |-> 0, trust |-> NoResult]
    ELSE LET trust == hook_getTrustLevel(stored, path, NoLine, NoLine) IN
         IF trust = Thrown THEN [code |-> 0, trust |-> Thrown]      \* outer catch: fail open
         ELSE IF trust.level = "READ_ONLY" THEN [code |-> 1, trust |-> trust]
         ELSE [code |-> 0, trust |-> trust]

(***************************************************************************)
(* Proposal storage (collab.ts).  A Proposal is modelled by its id, status,*)
(* file_path, description (a required string) and rationale (an optional   *)
(* string, Undefined when not given); the other required and optional      *)
(* fields are written and read the same way.  A YAML document is the       *)
(* mapping from the keys it holds to their values.                         *)
(***************************************************************************)
ProposalKeys == {"id", "status", "file_path", "description", "rationale"}

\* yaml.stringify(object): a key whose value is undefined is not written
yamlStringify(obj) == [k \in {x \in DOMAIN obj : obj[x] # Undefined} |-> obj[k]]

\* yaml.parse(content) as Proposal: a key the document lacks reads as undefined
yamlParse(doc) == [k \in ProposalKeys |-> IF k \in DOMAIN doc THEN doc[k] ELSE Undefined]

\* the strings generateId() may return
ProposalIds == {"k3x9a2bq", "p0q2"}

\* loadProposals: the parsed documents of the *.yaml files of the directory (the order
\* of the returned array is the order glob lists the files in; the model keeps the set)
loadProposals(files) == {yamlParse(files[f]) : f \in DOMAIN files}

\* saveProposal writing with the flag "wx": an existing <id>.yaml is left as it is
saveProposal_keepExisting(files, proposal) ==
    [f \in DOMAIN files \cup {proposal.id} |->
        IF f \in DOMAIN files THEN files[f] ELSE yamlStringify(proposal)]

\* saveProposal: fs.writeFile(<proposal.id>.yaml, yaml.stringify(proposal))
saveProposal(files, proposal) ==
    [f \in DOMAIN files \cup {proposal.id} |->
        IF f = proposal.id THEN yamlStringify(proposal) ELSE files[f]]

\* deleteProposal: fs.unlink(<id>.yaml), a failure is ignored
deleteProposal(files, id) == [f \in DOMAIN files \ {id} |-> files[f]]

\* proposals.find((p) => p.id === proposal_id): the set of hits (at most one per file)
findProposal(proposals, proposal_id) == {p \in proposals : p.id = proposal_id}

\* collab_list_proposals: the filter and the summary of each proposal
listProposals(files, status) ==
    LET proposals == loadProposals(files)
        wanted == IF status = Undefined THEN "pending" ELSE status
        filtered == IF status = "all" THEN proposals
                    ELSE {p \in proposals : p.status = wanted}
    IN {[id |-> p.id, file |-> p.file_path, description |-> p.description,
         status |-> p.status] : p \in filtered}

(***************************************************************************)
(* Intent storage (collab.ts).  An Intent is modelled by region_name and   *)
(* intent (required strings) and line_start (an optional number, NoLine    *)
(* when not given).  The intents file of a source file is a YAML list.     *)
(***************************************************************************)
\* no .collab/intents/<file>.yaml
NoIntentFile == [exists |-> FALSE, docs |-> <<>>]

\* one element of yaml.stringify(intents): an undefined line_start is not written
yamlIntent(i) ==
    [k \in {"region_name", "intent"} \cup (IF i.line_start = NoLine THEN {} ELSE {"line_start"})
        |-> i[k]]

\* one element of yaml.parse(content): a key the document lacks reads as undefined
parseIntent(doc) ==
    [region_name |-> doc.region_name, intent |-> doc.intent,
     line_start |-> IF "line_start" \in DOMAIN doc THEN doc.line_start ELSE NoLine]

\* loadIntents: readFile and yaml.parse(content) || []; [] when readFile rejects
loadIntents(file) ==
    IF ~file.exists THEN <<>>
    ELSE [k \in 1..Len(file.docs) |-> parseIntent(file.docs[k])]

\* fs.writeFile(intentPath, yaml.stringify(intents))
writeIntents(intents) ==
    [exists |-> TRUE, docs |-> [k \in 1..Len(intents) |-> yamlIntent(intents[k])]]

(***************************************************************************)
(* Trust configuration storage and initialization.  The variable config    *)
(* holds what yaml.parse reads from .collab/trust.yaml while trustFile is  *)
(* TRUE.  The compiled initializeCollab (unnamed/part_003) takes the flag  *)
(* useProjectScan; with FALSE it is initializeCollab of collab.ts.         *)
(***************************************************************************)
\* yaml.stringify(config) followed by yaml.parse: the optional keys of a policy and of
\* a region that are undefined are not written and read back as undefined
yamlPolicy(p) ==
    LET doc == [k \in {"pattern", "trust"} \cup {x \in {"owner", "reason"} : p[x] # Undefined}
                  |-> p[k]]
    IN [pattern |-> doc.pattern, trust |-> doc.trust,
        owner |-> IF "owner" \in DOMAIN doc THEN doc.owner ELSE Undefined,
        reason |-> IF "reason" \in DOMAIN doc THEN doc.reason ELSE Undefined]

yamlRegion(r) ==
    LET doc == [k \in {"file", "line_start", "line_end", "trust"}
                        \cup {x \in {"reason"} : r[x] # Undefined} |-> r[k]]
    IN [file |-> doc.file, line_start |-> doc.line_start, line_end |-> doc.line_end,
        trust |-> doc.trust,
        reason |-> IF "reason" \in DOMAIN doc THEN doc.reason ELSE Undefined]

\* saveTrustConfig(config): what trust.yaml holds afterwards, as loadTrustConfig reads it
saveTrustConfig(cfg) ==
    [default_trust |-> cfg.default_trust,
     policies |-> [i \in 1..Len(cfg.policies) |-> yamlPolicy(cfg.policies[i])],
     regions |-> [i \in 1..Len(cfg.regions) |-> yamlRegion(cfg.regions[i])]]

PatGenerated == <<"*", "*", "/", "g", "e", "n", "e", "r", "a", "t", "e", "d", "/", "*", "*">>
PatTest == <<"*", "*", "/", "t", "e", "s", "t", "/", "*", "*">>
PatTestFiles == <<"*", "*", "/", "*", ".", "t", "e", "s", "t", ".", "*">>
PatSecurity == <<"*", "*", "/", "s", "e", "c", "u", "r", "i", "t", "y", "/", "*", "*">>
PatAuth == <<"*", "*", "/", "a", "u", "t", "h", "/", "*", "*">>
PatCustom == <<"*", "*", "/", "c", "u", "s", "t", "o", "m", "/", "*", "*">>

\* the policies written when the project is not scanned
GenericPolicies ==
    <<[pattern |-> PatGenerated, trust |-> "AUTONOMOUS", owner |-> Undefined,
       reason |-> "Auto-generated code, can be regenerated"],
      [pattern |-> PatTest, trust |-> "AUTONOMOUS", owner |-> Undefined,
       reason |-> "Test files can be freely modified"],
      [pattern |-> PatTestFiles, trust |-> "AUTONOMOUS", owner |-> Undefined,
       reason |-> "Test files can be freely modified"],
      [pattern |-> PatSecurity, trust |-> "READ_ONLY", owner |-> Undefined,
       reason |-> "Security-critical code requires human modification"]>>

\* the policies written when the scan suggests none
FallbackPolicies ==
    <<[pattern |-> PatGenerated, trust |-> "AUTONOMOUS", owner |-> Undefined,
       reason |-> "Auto-generated code"],
      [pattern |-> PatTest, trust |-> "AUTONOMOUS", owner |-> Undefined, reason |-> "Test files"],
      [pattern |-> PatTestFiles, trust |-> "AUTONOMOUS", owner |-> Undefined, reason |-> "Test files"],
      [pattern |-> PatSecurity, trust |-> "READ_ONLY", owner |-> Undefined,
       reason |-> "Security-critical code"]>>

\* suggested_policies of scanProject for two projects (READ_ONLY first, AUTONOMOUS last)
ScanSuggestions ==
    {<<[pattern |-> PatSecurity, trust |-> "READ_ONLY", owner |-> Undefined,
        reason |-> "Security-critical code requires human review"],
       [pattern |-> PatTest, trust |-> "AUTONOMOUS", owner |-> Undefined,
        reason |-> "Test files can be freely modified"]>>,
     <<[pattern |-> PatSecurity, trust |-> "READ_ONLY", owner |-> Undefined,
        reason |-> "Security-critical code requires human review"],
       [pattern |-> PatAuth, trust |-> "SUGGEST_ONLY", owner |-> Undefined,
        reason |-> "Authentication code requires careful review"],
       [pattern |-> PatTest, trust |-> "AUTONOMOUS", owner |-> Undefined,
        reason |-> "Test files can be freely modified"]>>}

\* initializeCollab writing trust.yaml whether or not it exists
initializeCollab_alwaysWrite(useProjectScan, suggested, trustExists, stored, cfgYaml) ==
    LET policies == IF useProjectScan
                    THEN IF Len(suggested) > 0 THEN suggested ELSE FallbackPolicies
                    ELSE GenericPolicies
        written == saveTrustConfig([default_trust |-> "SUPERVISED", policies |-> policies,
                                    regions |-> <<>>])
    IN [config |-> written,
        configYaml |-> IF cfgYaml = "absent" THEN "default" ELSE cfgYaml,
        scanResult |-> IF useProjectScan
                       THEN [suggested_policies |-> suggested, existing_trust_file |-> trustExists]
                       ELSE Undefined]

\* initializeCollab: the stored trust config, the state of config.yaml and the value
\* returned, given whether trust.yaml exists and what the two files hold
initializeCollab(useProjectScan, suggested, trustExists, stored, cfgYaml) ==
    LET policies == IF useProjectScan
                    THEN IF Len(suggested) > 0 THEN suggested ELSE FallbackPolicies
                    ELSE GenericPolicies
        written == saveTrustConfig([default_trust |-> "SUPERVISED", policies |-> policies,
                                    regions |-> <<>>])
    IN [config |-> IF trustExists THEN stored ELSE written,
        configYaml |-> IF cfgYaml = "absent" THEN "default" ELSE cfgYaml,
        scanResult |-> IF useProjectScan
                       THEN [suggested_policies |-> suggested, existing_trust_file |-> trustExists]
                       ELSE Undefined]

(***************************************************************************)
(* Inputs                                                                  *)
(***************************************************************************)
PatChars == {"a", "/", "*", "?", "["}
PathChars == {"a", "/", "\\"}

\* a/x.ts, a\x.ts, x.py
PathTs == <<"a", "/", "x", ".", "t", "s">>
PathTsWin == <<"a", "\\", "x", ".", "t", "s">>
PathPy == <<"x", ".", "p", "y">>
PathRb == <<"x", ".", "r", "b">>

RECURSIVE joinLF(_)
joinLF(ls) ==
    IF Len(ls) = 0 THEN <<>>
    ELSE IF Len(ls) = 1 THEN ls[1]
    ELSE ls[1] \o <<"\n">> \o joinLF(Tail(ls))

\* the lines of a file written with the line terminator eol
RECURSIVE joinWith(_, _)
joinWith(ls, eol) ==
    IF Len(ls) = 0 THEN <<>>
    ELSE IF Len(ls) = 1 THEN ls[1]
    ELSE ls[1] \o eol \o joinWith(Tail(ls), eol)

\* LF, CRLF, CR
LineEndings == {<<"\n">>, <<"\r", "\n">>, <<"\r">>}

\* lines of a brace-class file
LnMarkerRO == <<"//", " ", "@collab", " ", "trust=\"READ_ONLY\"">>
LnMarkerSO == <<"//", " ", "@collab", " ", "trust=\"SUGGEST_ONLY\"", " ", "owner=\"privacy-team\"">>
LnMarkerBogus == <<"//", " ", "@collab", " ", "trust=\"BOGUS\"", " ", "owner=\"auth-team\"">>
LnBegin == <<"//", " ", "@collab:begin", " ", "trust=\"SUPERVISED\"">>
LnEnd == <<"//", " ", "@collab:end">>
LnOpen == <<"x", " ", "{">>
LnNested == <<" ", "x", "{", "x", "}">>
LnClose == <<"}">>
LnCloseOpen == <<"}", " ", "x", " ", "{">>
LnBlank == <<>>
LnComment == <<"//", " ", "x">>
LnCode == <<"x">>
\* lines of an indentation-class file
LnPyMarker == <<"#", " ", "@collab", " ", "trust=\"READ_ONLY\"">>
LnPyComment == <<" ", "#", " ", "x">>
LnIndent1 == <<" ", "x">>
LnIndent2 == <<" ", " ", "x">>
LnSpaces == <<" ">>

\* lines of a file with explicit blocks
LnBeginOwner == <<"/*", " ", "@collab:begin", " ", "owner=\"auth-team\"", " ", "*/">>
BlockLines == {LnBegin, LnBeginOwner, LnEnd, LnMarkerRO, LnOpen, LnClose}

\* marker lines whose attributes are merged
LnMarkerSuggest == <<"//", " ", "@collab", " ", "trust=\"SUGGEST_ONLY\"">>
LnMarkerOwner == <<"//", " ", "@collab", " ", "owner=\"auth-team\"">>
MergeLines == {LnMarkerSuggest, LnMarkerOwner, LnMarkerSO, LnMarkerRO, LnOpen, LnClose}

\* marker lines with an invalid trust value and with an unrecognized key
LnMarkerUnknown == <<"//", " ", "@collab", " ", "reviewer=\"bob\"", " ", "intent=\"Validate\"">>
AttrLines == {LnMarkerBogus, LnMarkerUnknown, LnMarkerRO, LnCode}

\* lines of the files written with different line endings
EolLines == {LnMarkerRO, LnBegin, LnEnd, LnOpen, LnClose}

BraceLines == {LnMarkerRO, LnOpen, LnNested, LnClose, LnCloseOpen, LnBlank, LnComment}
IndentLines == {LnPyMarker, LnCode, LnIndent1, LnIndent2, LnBlank, LnPyComment}
OtherLines == {LnPyMarker, LnCode, LnIndent1, LnBlank}

FilesOver(catalog) == {joinLF(ls) : ls \in UNION {[1..k -> catalog] : k \in 1..MaxLines}}

\* files of the resolution runs
FileAnnotated == joinLF(<<LnMarkerRO, LnOpen, LnNested, LnClose>>)
FileTwoAnnotations == joinLF(<<LnMarkerSO, LnOpen, LnMarkerRO, LnNested, LnClose>>)
FilePlain == joinLF(<<LnCode, LnCode>>)
FileNoTrust == joinLF(<<LnMarkerBogus, LnOpen, LnClose, LnMarkerRO, LnCode>>)
FileNestedInBlock == joinLF(<<LnBegin, LnMarkerSO, LnNested, LnNested, LnEnd>>)
ResolveFiles == {FileAnnotated, FileTwoAnnotations, FilePlain, FileNoTrust,
                 FileNestedInBlock, Unreadable}

\* policy rules: a/**, a/*, and the unbalanced bracket
PolicyCatalog ==
    {[pattern |-> <<"a", "/", "*", "*">>, trust |-> "SUGGEST_ONLY",
      owner |-> "backend-team", reason |-> "Core business logic"],
     [pattern |-> <<"a", "/", "*">>, trust |-> "READ_ONLY",
      owner |-> Undefined, reason |-> "Security-critical code"],
     [pattern |-> <<"[">>, trust |-> "AUTONOMOUS",
      owner |-> Undefined, reason |-> Undefined]}

\* region overrides: x.ts lines 2-3 (suffix of a/x.ts), a/x.ts lines 3-5
RegionCatalog ==
    {[file |-> <<"x", ".", "t", "s">>, line_start |-> 2, line_end |-> 3,
      trust |-> "AUTONOMOUS", reason |-> "Generated section"],
     [file |-> <<"a", "\\", "x", ".", "t", "s">>, line_start |-> 3, line_end |-> 5,
      trust |-> "SUPERVISED", reason |-> Undefined]}

\* lists of at most n distinct elements of S
DistinctSeqsUpTo(S, n) ==
    {q \in SeqsUpTo(S, n) : \A i, j \in 1..Len(q) : i # j => q[i] # q[j]}

Configs ==
    {[default_trust |-> d, policies |-> ps, regions |-> rs] :
        d \in {"SUPERVISED", "AUTONOMOUS"},
        ps \in DistinctSeqsUpTo(PolicyCatalog, MaxPolicies),
        rs \in DistinctSeqsUpTo(RegionCatalog, MaxRegions)}

\* (lineStart, lineEnd) pairs of a query
Queries ==
    {<<NoLine, NoLine>>, <<NoLine, 2>>, <<2, 2>>}
    \cup {<<s, NoLine>> : s \in 1..MaxQueryLine}
    \cup {<<s, e>> \in (1..MaxQueryLine) \X (1..MaxQueryLine) : s < e}

(***************************************************************************)
(* Initial states                                                          *)
(***************************************************************************)
InitOutputs ==
    /\ op = "init"
    /\ matched = "none"
    /\ result = NoResult
    /\ annotations = <<>>
    /\ exitCode = -1
    /\ arg = Undefined
    /\ reply = Undefined
    /\ lastIndex = 0
    /\ calls = <<>>
    /\ intentFile = NoIntentFile

\* no proposal is stored and config.yaml has not been written
NoStore ==
    /\ proposalFiles = <<>>
    /\ configYaml = "absent"

NoHook ==
    /\ collabDir = TRUE
    /\ stdin = "empty"
    /\ trustFile = TRUE

NoQuery ==
    /\ config = DefaultConfig
    /\ lineStart = NoLine
    /\ lineEnd = NoLine

\* direct calls of the matcher
InitMatch ==
    /\ InitOutputs /\ NoHook /\ NoQuery /\ NoStore
    /\ pattern \in SeqsUpTo(PatChars, MaxPatLen)
    /\ filePath \in SeqsUpTo(PathChars, MaxPathLen)
    /\ content = <<>>

\* src/auth/login.ts and src/authorization/x.ts
PathLogin == <<"s", "r", "c", "/", "a", "u", "t", "h", "/", "l", "o", "g", "i", "n", ".", "t", "s">>
PathAuthorization == <<"s", "r", "c", "/", "a", "u", "t", "h", "o", "r", "i", "z", "a", "t", "i", "o", "n",
                       "/", "x", ".", "t", "s">>

\* the pattern **/d/**
dirPattern(d) == <<"*", "*", "/">> \o d \o <<"/", "*", "*">>

\* directory names over the letters a and b
DirNames == SeqsUpTo({"a", "b"}, MaxDirLen) \ {<<>>}

\* direct calls of the matcher with a pattern **/d/**
InitAnchor ==
    /\ InitOutputs /\ NoHook /\ NoQuery /\ NoStore
    /\ content = <<>>
    /\ \/ /\ pattern \in {dirPattern(d) : d \in DirNames}
          /\ filePath \in SeqsUpTo({"a", "b", "/", "\\"}, MaxAnchorPathLen)
       \/ /\ pattern = PatAuth
          /\ filePath \in {PathLogin, PathAuthorization}

\* direct calls of the parser
InitParse ==
    /\ InitOutputs /\ NoHook /\ NoQuery /\ NoStore
    /\ pattern = <<>>
    /\ \/ filePath = PathTs /\ content \in FilesOver(BraceLines)
       \/ filePath = PathPy /\ content \in FilesOver(IndentLines)
       \/ filePath = PathRb /\ content \in FilesOver(OtherLines)

\* direct calls of the parser on files with @collab:begin / @collab:end lines
InitBlocks ==
    /\ InitOutputs /\ NoHook /\ NoQuery /\ NoStore
    /\ pattern = <<>>
    /\ filePath = PathTs
    /\ content \in FilesOver(BlockLines)

\* direct calls of the parser on files with runs of different marker lines
InitMerge ==
    /\ InitOutputs /\ NoHook /\ NoQuery /\ NoStore
    /\ pattern = <<>>
    /\ filePath = PathTs
    /\ content \in FilesOver(MergeLines)

\* parser calls and single-line queries on files with invalid and unrecognized attributes
InitAttrs ==
    /\ InitOutputs /\ NoHook /\ NoStore
    /\ pattern = <<>>
    /\ filePath = PathTs
    /\ content \in FilesOver(AttrLines)
    /\ config = DefaultConfig
    /\ lineStart \in 1..MaxQueryLine
    /\ lineEnd = NoLine

\* parser calls and single-line queries on Ruby files (marker, class or method line,
\* indented body line, blank line)
InitRuby ==
    /\ InitOutputs /\ NoHook /\ NoStore
    /\ pattern = <<>>
    /\ filePath = PathRb
    /\ content \in FilesOver(OtherLines)
    /\ config = DefaultConfig
    /\ lineStart \in 1..MaxQueryLine
    /\ lineEnd = NoLine

\* direct calls of the parser on files written with LF, CRLF or CR line endings
InitEol ==
    /\ InitOutputs /\ NoHook /\ NoQuery /\ NoStore
    /\ pattern = <<>>
    /\ filePath = PathTs
    /\ \E ls \in UNION {[1..k -> EolLines] : k \in 1..MaxLines} :
         \E eol \in LineEndings : content = joinWith(ls, eol)

\* the proposals a caller may hand to saveProposal
Proposals ==
    [id : ProposalIds, status : {"pending", "approved", "rejected"},
     file_path : {"src/core/business.ts"}, description : {"Optimize calculatePrice", "Rename"},
     rationale : {Undefined, "Inefficient"}]

NoResolver ==
    /\ NoHook /\ NoQuery
    /\ pattern = <<>> /\ filePath = <<>> /\ content = <<>>

\* the proposal store, empty at first
InitProposals ==
    /\ InitOutputs /\ NoResolver
    /\ proposalFiles = <<>>
    /\ configYaml = "absent"

\* the callers whose tool calls overlap
Callers == 1..MaxCallers

\* a caller that has not sent its request yet
Idle == [tool |-> "none", id |-> Undefined, pc |-> "idle", files |-> {}, proposals |-> {},
         answer |-> [status |-> "none"]]

\* the pending proposal stored under an id
pendingProposal(id) ==
    [id |-> id, status |-> "pending", file_path |-> "src/core/business.ts",
     description |-> "Optimize calculatePrice", rationale |-> Undefined]

\* a store with pending proposals, and callers about to apply or reject them
InitApply ==
    /\ op = "init" /\ matched = "none" /\ result = NoResult /\ exitCode = -1
    /\ annotations = <<>> /\ arg = Undefined /\ reply = Undefined /\ lastIndex = 0
    /\ NoResolver
    /\ configYaml = "absent" /\ intentFile = NoIntentFile
    /\ \E stored \in (SUBSET ProposalIds) \ {{}} :
         proposalFiles = [id \in stored |-> yamlStringify(pendingProposal(id))]
    /\ calls = [c \in Callers |-> Idle]

\* the intents the callers record for src/core/business.ts
IntentCatalog ==
    {[region_name |-> "calculatePrice", line_start |-> 2,
      intent |-> "Calculate the final price including discounts and taxes"],
     [region_name |-> "formatPrice", line_start |-> NoLine, intent |-> "Format for display"],
     [region_name |-> "applyTax", line_start |-> 9, intent |-> "Apply the tax rate"]}

\* a caller that has not sent its collab_record_intent request yet
IdleRecorder == [tool |-> "none", intent |-> [region_name |-> "", line_start |-> NoLine, intent |-> ""],
                 pc |-> "idle", intents |-> <<>>, answer |-> [status |-> "none"]]

\* no intent recorded yet for the file, or one; callers about to record intents
InitIntents ==
    /\ op = "init" /\ matched = "none" /\ result = NoResult /\ exitCode = -1
    /\ annotations = <<>> /\ arg = Undefined /\ reply = Undefined /\ lastIndex = 0
    /\ NoResolver /\ NoStore
    /\ intentFile \in {NoIntentFile} \cup {writeIntents(<<i>>) : i \in IntentCatalog}
    /\ calls = [c \in Callers |-> IdleRecorder]

\* the policy the re-initialization test adds
CustomPolicy ==
    [pattern |-> PatCustom, trust |-> "READ_ONLY", owner |-> Undefined, reason |-> "Custom policy"]

\* customConfig.policies.push(CustomPolicy), for a config that does not hold it yet
withCustomPolicy(cfg) ==
    IF \E i \in 1..Len(cfg.policies) : cfg.policies[i] = CustomPolicy THEN {}
    ELSE {[cfg EXCEPT !.policies = Append(@, CustomPolicy)]}

\* configs a caller may hand to saveTrustConfig
SavedConfigs == {c \in Configs : Len(c.policies) <= 1 /\ Len(c.regions) <= 1}

\* a project before or after initialization; config.yaml may have been edited by hand
InitProject ==
    /\ InitOutputs
    /\ stdin = "empty" /\ lineStart = NoLine /\ lineEnd = NoLine
    /\ pattern = <<>> /\ filePath = <<>> /\ content = <<>>
    /\ proposalFiles = <<>>
    /\ \/ collabDir = FALSE /\ trustFile = FALSE /\ config = DefaultConfig /\ configYaml = "absent"
       \/ /\ collabDir = TRUE
          /\ \/ trustFile = FALSE /\ config = DefaultConfig
             \/ trustFile = TRUE /\ config \in {saveTrustConfig(c) : c \in SavedConfigs}
          /\ configYaml \in {"absent", "default", "custom"}

\* the files whose parse is repeated, and the files of the calls in between
FileMergedRun == joinLF(<<LnMarkerSuggest, LnMarkerOwner, LnOpen, LnClose>>)
FileBlock == joinLF(<<LnBeginOwner, LnOpen, LnClose, LnEnd, LnMarkerRO, LnCode>>)
RepeatFiles == {FileAnnotated, FileTwoAnnotations, FileNoTrust, FileNestedInBlock,
                FileMergedRun, FileBlock, FilePlain}
OtherFiles == {[path |-> PathPy, text |-> joinLF(<<LnPyMarker, LnCode, LnIndent1>>)],
               [path |-> PathRb, text |-> Unreadable],
               [path |-> PathTsWin, text |-> joinLF(<<LnMarkerBogus, LnMarkerSO, LnCode>>)]}

\* a server process right after start-up; filePath/content is the file under observation
InitRepeat ==
    /\ op = "init" /\ matched = "none" /\ result = NoResult /\ exitCode = -1
    /\ annotations = <<>>
    /\ arg = [file |-> <<>>, line |-> NoLine]
    /\ reply = [first |-> <<>>, calls |-> 0]
    /\ lastIndex = 0
    /\ calls = <<>>
    /\ intentFile = NoIntentFile
    /\ NoHook /\ NoQuery /\ NoStore
    /\ pattern = <<>>
    /\ filePath = PathTs
    /\ content \in RepeatFiles

\* the same request put to the hook's resolver and to the server's
InitEquiv ==
    /\ InitOutputs /\ NoStore
    /\ collabDir = TRUE /\ stdin = "edit"
    /\ pattern = <<>>
    /\ filePath \in {PathTs, PathTsWin, PathPy}
    /\ content = FilePlain
    /\ \/ trustFile = TRUE /\ config \in Configs
       \/ trustFile = FALSE /\ config = DefaultConfig
    /\ \E q \in Queries : lineStart = q[1] /\ lineEnd = q[2]

\* resolution requests
InitResolve ==
    /\ InitOutputs /\ NoStore
    /\ collabDir = TRUE /\ stdin = "empty"
    /\ pattern = <<>>
    /\ filePath \in {PathTs, PathTsWin, PathPy}
    /\ content \in ResolveFiles
    /\ \/ trustFile = TRUE /\ config \in Configs
       \/ trustFile = FALSE /\ config = DefaultConfig     \* no trust.yaml to read
    /\ \E q \in Queries : lineStart = q[1] /\ lineEnd = q[2]

\* runs of the pre-edit hook; lineStart/lineEnd are the lines the edit touches
InitHook ==
    /\ InitOutputs /\ NoStore
    /\ pattern = <<>>
    /\ collabDir \in BOOLEAN
    /\ stdin \in {"empty", "garbage", "nopath", "edit"}
    /\ trustFile \in BOOLEAN
    /\ filePath \in {PathTs, PathPy}
    /\ content \in {FileAnnotated, FilePlain, Unreadable}
    /\ config \in {c \in Configs : Len(c.regions) <= 1}
    /\ lineStart \in 1..MaxQueryLine
    /\ lineEnd = NoLine

(***************************************************************************)
(* Operations                                                              *)
(***************************************************************************)
Inputs == <<filePath, pattern, content, config, lineStart, lineEnd, collabDir, stdin, trustFile,
            lastIndex, calls, intentFile>>
StoreVars == <<proposalFiles, configYaml, arg, reply>>

MatchesPattern ==
    /\ op = "init"
    /\ op' = "matchesPattern"
    /\ matched' = matchesPattern(filePath, pattern)
    /\ UNCHANGED <<Inputs, StoreVars, result, annotations, exitCode>>

HookMatchesPattern ==
    /\ op = "init"
    /\ op' = "hook_matchesPattern"
    /\ matched' = hook_matchesPattern(filePath, pattern)
    /\ UNCHANGED <<Inputs, StoreVars, result, annotations, exitCode>>

ParseAnnotations ==
    /\ op = "init"
    /\ op' = "parseAnnotations"
    /\ annotations' = parseAnnotations(filePath, content)
    /\ UNCHANGED <<Inputs, StoreVars, matched, result, exitCode>>

GetTrustLevelWithAnnotations ==
    /\ op = "init"
    /\ op' = "getTrustLevelWithAnnotations"
    /\ result' = getTrustLevelWithAnnotations(config, filePath, content, lineStart, lineEnd)
    /\ UNCHANGED <<Inputs, StoreVars, matched, annotations, exitCode>>

GetTrustLevel ==
    /\ op = "init"
    /\ op' = "getTrustLevel"
    /\ result' = getTrustLevel(config, filePath, lineStart, lineEnd)
    /\ UNCHANGED <<Inputs, StoreVars, matched, annotations, exitCode>>

\* getTrustLevel of hooks/utils.ts
HookGetTrustLevel ==
    /\ op = "init"
    /\ op' = "hook_getTrustLevel"
    /\ result' = hook_getTrustLevel(config, filePath, lineStart, lineEnd)
    /\ UNCHANGED <<Inputs, StoreVars, matched, annotations, exitCode>>

\* CallTool handler, case "collab_check_trust"; an exception is caught by the handler
\* and answered as an error, which the model records as Thrown
CheckTrust ==
    /\ op = "init"
    /\ op' = "collab_check_trust"
    /\ LET trustConfig == loadTrustConfig(trustFile, config) IN
       result' = IF lineStart # NoLine
                 THEN getTrustLevelWithAnnotations(trustConfig, filePath, content, lineStart, lineEnd)
                 ELSE getTrustLevel(trustConfig, filePath, lineStart, lineEnd)
    /\ UNCHANGED <<Inputs, StoreVars, matched, annotations, exitCode>>

PreEditHook ==
    /\ op = "init"
    /\ op' = "pre-edit"
    /\ LET r == preEditMain(collabDir, stdin, trustFile, config, filePath) IN
       /\ exitCode' = r.code
       /\ result' = r.trust
    /\ UNCHANGED <<Inputs, StoreVars, matched, annotations>>

(***************************************************************************)
(* Operations on the proposal store                                        *)
(***************************************************************************)
ResolverVars == <<filePath, pattern, matched, content, config, lineStart, lineEnd, result,
                  annotations, collabDir, stdin, trustFile, exitCode, lastIndex, calls, intentFile>>

SaveProposal ==
    \E proposal \in Proposals :
        /\ op' = "saveProposal"
        /\ arg' = proposal
        /\ proposalFiles' = saveProposal(proposalFiles, proposal)
        /\ reply' = Undefined
        /\ UNCHANGED <<ResolverVars, configYaml>>

DeleteProposal ==
    \E id \in ProposalIds :
        /\ op' = "deleteProposal"
        /\ arg' = id
        /\ proposalFiles' = deleteProposal(proposalFiles, id)
        /\ reply' = Undefined
        /\ UNCHANGED <<ResolverVars, configYaml>>

LoadProposals ==
    /\ op' = "loadProposals"
    /\ arg' = Undefined
    /\ reply' = loadProposals(proposalFiles)
    /\ UNCHANGED <<ResolverVars, configYaml, proposalFiles>>

\* CallTool handler, case "collab_propose_change"
ProposeChange ==
    \E id \in ProposalIds, d \in {"Optimize calculatePrice", "Rename"},
       r \in {Undefined, "Inefficient"} :
        LET proposal == [id |-> id, status |-> "pending", file_path |-> "src/core/business.ts",
                         description |-> d, rationale |-> r]
        IN /\ op' = "collab_propose_change"
           /\ arg' = [file_path |-> "src/core/business.ts", description |-> d, rationale |-> r]
           /\ proposalFiles' = saveProposal(proposalFiles, proposal)
           /\ reply' = [proposal_id |-> id, status |-> "pending"]
           /\ UNCHANGED <<ResolverVars, configYaml>>

\* CallTool handler, case "collab_list_proposals"
ListProposals ==
    \E status \in {Undefined, "pending", "approved", "rejected", "all"} :
        /\ op' = "collab_list_proposals"
        /\ arg' = status
        /\ reply' = listProposals(proposalFiles, status)
        /\ UNCHANGED <<ResolverVars, configYaml, proposalFiles>>

\* CallTool handler, case "collab_apply_proposal"
ApplyProposal ==
    \E proposal_id \in ProposalIds :
        LET found == findProposal(loadProposals(proposalFiles), proposal_id) IN
        /\ op' = "collab_apply_proposal"
        /\ arg' = proposal_id
        /\ IF found = {}
           THEN /\ reply' = [error |-> "not found"]
                /\ UNCHANGED proposalFiles
           ELSE /\ proposalFiles' = deleteProposal(proposalFiles, proposal_id)
                /\ reply' = [status |-> "approved", proposal |-> CHOOSE p \in found : TRUE]
        /\ UNCHANGED <<ResolverVars, configYaml>>

\* CallTool handler, case "collab_reject_proposal"
RejectProposal ==
    \E proposal_id \in ProposalIds :
        /\ op' = "collab_reject_proposal"
        /\ arg' = proposal_id
        /\ proposalFiles' = deleteProposal(proposalFiles, proposal_id)
        /\ reply' = [status |-> "rejected", proposal_id |-> proposal_id]
        /\ UNCHANGED <<ResolverVars, configYaml>>

NextProposals ==
    \/ SaveProposal \/ DeleteProposal \/ LoadProposals
    \/ ProposeChange \/ ListProposals \/ ApplyProposal \/ RejectProposal

(***************************************************************************)
(* Operations on the trust configuration                                   *)
(***************************************************************************)
QueryVars == <<filePath, pattern, matched, content, lineStart, lineEnd, result,
               annotations, stdin, exitCode, proposalFiles, lastIndex, calls, intentFile>>

LoadTrustConfig ==
    /\ op' = "loadTrustConfig"
    /\ arg' = Undefined
    /\ reply' = loadTrustConfig(trustFile, config)
    /\ UNCHANGED <<QueryVars, collabDir, trustFile, config, configYaml>>

\* saveTrustConfig with a config of the caller, or with the loaded config after
\* pushing the custom policy to its policies
SaveTrustConfig ==
    \E cfg \in SavedConfigs \cup withCustomPolicy(loadTrustConfig(trustFile, config)) :
        /\ op' = "saveTrustConfig"
        /\ arg' = cfg
        /\ collabDir' = TRUE
        /\ trustFile' = TRUE
        /\ config' = saveTrustConfig(cfg)
        /\ reply' = Undefined
        /\ UNCHANGED <<QueryVars, configYaml>>

InitializeCollab ==
    \E useProjectScan \in BOOLEAN, suggested \in ScanSuggestions :
        LET r == initializeCollab(useProjectScan, suggested, trustFile, config, configYaml) IN
        /\ op' = "initializeCollab"
        /\ arg' = useProjectScan
        /\ collabDir' = TRUE
        /\ trustFile' = TRUE
        /\ config' = r.config
        /\ configYaml' = r.configYaml
        /\ reply' = r.scanResult
        /\ UNCHANGED QueryVars

NextProject == LoadTrustConfig \/ SaveTrustConfig \/ InitializeCollab

(***************************************************************************)
(* Concurrent collab_apply_proposal and collab_reject_proposal calls.  A   *)
(* handler runs until its next await on the file system and is resumed     *)
(* when that operation has completed; each step below is one file system   *)
(* operation together with the synchronous code that follows it.           *)
(***************************************************************************)
ApplyFixed == <<op, filePath, pattern, matched, content, config, lineStart, lineEnd, result,
                annotations, collabDir, stdin, trustFile, exitCode, configYaml, arg, reply,
                lastIndex, intentFile>>

\* loadProposals has returned `proposals` to the apply handler of caller c: find, the
\* not-found answer, or the call of deleteProposal
afterLoadProposals(call, proposals) ==
    IF findProposal(proposals, call.id) = {}
    THEN [call EXCEPT !.pc = "done", !.files = {}, !.proposals = proposals,
                      !.answer = [status |-> "error"]]
    ELSE [call EXCEPT !.pc = "unlink", !.files = {}, !.proposals = proposals]

\* a collab_apply_proposal request arrives: loadProposals starts its glob
ReceiveApply(c) ==
    /\ calls[c].pc = "idle"
    /\ \E id \in ProposalIds :
         calls' = [calls EXCEPT ![c] = [Idle EXCEPT !.tool = "collab_apply_proposal",
                                                    !.id = id, !.pc = "glob"]]
    /\ UNCHANGED <<ApplyFixed, proposalFiles>>

\* a collab_reject_proposal request arrives: deleteProposal starts its unlink
ReceiveReject(c) ==
    /\ calls[c].pc = "idle"
    /\ \E id \in ProposalIds :
         calls' = [calls EXCEPT ![c] = [Idle EXCEPT !.tool = "collab_reject_proposal",
                                                    !.id = id, !.pc = "unlink"]]
    /\ UNCHANGED <<ApplyFixed, proposalFiles>>

\* loadProposals: glob("*.yaml") lists the directory
GlobProposals(c) ==
    /\ calls[c].pc = "glob"
    /\ calls' = [calls EXCEPT ![c] =
                    IF DOMAIN proposalFiles = {} THEN afterLoadProposals(calls[c], {})
                    ELSE [calls[c] EXCEPT !.pc = "read", !.files = DOMAIN proposalFiles]]
    /\ UNCHANGED <<ApplyFixed, proposalFiles>>

\* loadProposals: one readFile of the for loop; a file that is gone makes readFile
\* reject and the catch block return []
ReadProposal(c) ==
    /\ calls[c].pc = "read"
    /\ \E f \in calls[c].files :
         calls' = [calls EXCEPT ![c] =
                      IF f \notin DOMAIN proposalFiles THEN afterLoadProposals(calls[c], {})
                      ELSE LET read == calls[c].proposals \cup {yamlParse(proposalFiles[f])} IN
                           IF calls[c].files = {f} THEN afterLoadProposals(calls[c], read)
                           ELSE [calls[c] EXCEPT !.files = calls[c].files \ {f},
                                                 !.proposals = read]]
    /\ UNCHANGED <<ApplyFixed, proposalFiles>>

\* deleteProposal: the unlink, and the answer of the handler that awaited it
UnlinkProposal(c) ==
    /\ calls[c].pc = "unlink"
    /\ proposalFiles' = deleteProposal(proposalFiles, calls[c].id)
    /\ calls' = [calls EXCEPT ![c] =
                    [calls[c] EXCEPT !.pc = "done",
                                     !.answer = IF calls[c].tool = "collab_apply_proposal"
                                                THEN [status |-> "approved"]
                                                ELSE [status |-> "rejected"]]]
    /\ UNCHANGED ApplyFixed

NextApply ==
    \E c \in Callers :
        \/ ReceiveApply(c) \/ ReceiveReject(c)
        \/ GlobProposals(c) \/ ReadProposal(c) \/ UnlinkProposal(c)

(***************************************************************************)
(* Concurrent collab_record_intent calls for one source file.  saveIntent  *)
(* awaits ensureCollabDir, loadIntents and writeFile; creating the         *)
(* directory changes nothing the other steps read, so the model starts at  *)
(* the readFile of loadIntents.                                            *)
(***************************************************************************)
IntentFixed == <<op, filePath, pattern, matched, content, config, lineStart, lineEnd, result,
                 annotations, collabDir, stdin, trustFile, exitCode, configYaml, arg, reply,
                 lastIndex, proposalFiles>>

\* a collab_record_intent request arrives; saveIntent runs up to the readFile of loadIntents
ReceiveRecordIntent(c) ==
    /\ calls[c].pc = "idle"
    /\ \E i \in IntentCatalog :
         calls' = [calls EXCEPT ![c] = [IdleRecorder EXCEPT !.tool = "collab_record_intent",
                                                            !.intent = i, !.pc = "read"]]
    /\ UNCHANGED <<IntentFixed, intentFile>>

\* loadIntents returns; intents.push(intent); writeFile is started
ReadIntents(c) ==
    /\ calls[c].pc = "read"
    /\ calls' = [calls EXCEPT ![c] =
                    [calls[c] EXCEPT !.pc = "write",
                                     !.intents = Append(loadIntents(intentFile), calls[c].intent)]]
    /\ UNCHANGED <<IntentFixed, intentFile>>

\* writeFile completes and the handler answers "recorded"
WriteIntents(c) ==
    /\ calls[c].pc = "write"
    /\ intentFile' = writeIntents(calls[c].intents)
    /\ calls' = [calls EXCEPT ![c] =
                    [calls[c] EXCEPT !.pc = "done", !.answer = [status |-> "recorded"]]]
    /\ UNCHANGED IntentFixed

NextIntents ==
    \E c \in Callers : ReceiveRecordIntent(c) \/ ReadIntents(c) \/ WriteIntents(c)

(***************************************************************************)
(* Repeated calls in one process.  `reply` records the list the first call *)
(* on the observed file returned and the number of calls on it, `arg` the   *)
(* file and line of the last call.                                         *)
(***************************************************************************)
RepeatFixed == <<filePath, pattern, matched, content, config, lineStart, lineEnd, collabDir,
                 stdin, trustFile, exitCode, proposalFiles, configYaml, calls, intentFile>>

\* parseAnnotations on the observed file or on another file
ParseCall ==
    \E f \in {[path |-> filePath, text |-> content]} \cup OtherFiles :
        \E parsed \in {parseAnnotationsExec(f.path, f.text, lastIndex)} :
        /\ f.path = filePath => reply.calls < MaxCalls
        /\ op' = "parseAnnotations"
        /\ arg' = [file |-> f.path, line |-> NoLine]
        /\ lastIndex' = parsed.lastIndex
        /\ IF f.path = filePath
           THEN /\ annotations' = parsed.annotations
                /\ reply' = [first |-> IF reply.calls = 0 THEN parsed.annotations ELSE reply.first,
                             calls |-> reply.calls + 1]
           ELSE UNCHANGED <<annotations, reply>>
        /\ UNCHANGED <<RepeatFixed, result>>

\* getTrustLevelWithAnnotations on the observed file or on another file
ResolveCall ==
    \E f \in {[path |-> filePath, text |-> content]} \cup OtherFiles, ls \in {1, 3} :
        \E r \in {getTrustLevelWithAnnotationsExec(config, f.path, f.text, ls, NoLine, lastIndex)} :
        /\ op' = "getTrustLevelWithAnnotations"
        /\ arg' = [file |-> f.path, line |-> ls]
        /\ lastIndex' = r.lastIndex
        /\ result' = r.result
        /\ UNCHANGED <<RepeatFixed, annotations, reply>>

NextRepeat == ParseCall \/ ResolveCall

NextMatch == MatchesPattern \/ HookMatchesPattern
NextParse == ParseAnnotations
NextResolve == GetTrustLevelWithAnnotations \/ GetTrustLevel \/ CheckTrust \/ ParseAnnotations
NextHook == PreEditHook

SpecMatch == InitMatch /\ [][NextMatch]_vars
SpecAnchor == InitAnchor /\ [][NextMatch]_vars
SpecParse == InitParse /\ [][NextParse]_vars
SpecBlocks == InitBlocks /\ [][NextParse]_vars
SpecMerge == InitMerge /\ [][NextParse]_vars
SpecEol == InitEol /\ [][NextParse]_vars
NextAttrs == ParseAnnotations \/ GetTrustLevelWithAnnotations
SpecAttrs == InitAttrs /\ [][NextAttrs]_vars
SpecRuby == InitRuby /\ [][NextAttrs]_vars
SpecResolve == InitResolve /\ [][NextResolve]_vars
NextEquiv == GetTrustLevel \/ HookGetTrustLevel \/ CheckTrust \/ PreEditHook
SpecEquiv == InitEquiv /\ [][NextEquiv]_vars
SpecApply == InitApply /\ [][NextApply]_vars
SpecIntents == InitIntents /\ [][NextIntents]_vars
SpecRepeat == InitRepeat /\ [][NextRepeat]_vars
SpecHook == InitHook /\ [][NextHook]_vars
SpecProposals == InitProposals /\ [][NextProposals]_vars
SpecProject == InitProject /\ [][NextProject]_vars

Init == InitResolve
Next == NextResolve
Spec == SpecResolve

(***************************************************************************)
(* Properties of the resolver                                              *)
(***************************************************************************)
ResolverOps == {"getTrustLevelWithAnnotations", "getTrustLevel", "collab_check_trust"}

\* the config the operation resolved against
EffectiveConfig ==
    IF op = "collab_check_trust" THEN loadTrustConfig(trustFile, config) ELSE config

\* the operation ran the annotation-aware resolver with a start line
AnnotationAware ==
    /\ op \in {"getTrustLevelWithAnnotations", "collab_check_trust"}
    /\ lineStart # NoLine

QueryEnd == IF lineEnd = NoLine THEN lineStart ELSE lineEnd

ParsedNow == parseAnnotations(filePath, content)

\* indices of the annotations of anns that carry a trust value and overlap the query range
TrustedOverlapping(anns) ==
    {k \in 1..Len(anns) :
        /\ anns[k].trust \in TrustLevels
        /\ lineStart <= anns[k].line_end
        /\ QueryEnd >= anns[k].line_start}

\* indices of the regions of cfg for this file that overlap the query range
RegionsMatching(cfg) ==
    {k \in 1..Len(cfg.regions) :
        /\ endsWith(normalizeSlashes(filePath), normalizeSlashes(cfg.regions[k].file))
        /\ lineStart <= cfg.regions[k].line_end
        /\ QueryEnd >= cfg.regions[k].line_start}

\* indices of the policies of cfg whose pattern matches the path
PoliciesMatching(cfg) ==
    {k \in 1..Len(cfg.policies) :
        matchesPattern(normalizeSlashes(filePath), cfg.policies[k].pattern) = "true"}

\* C1: with a start line given, the annotation-aware resolver answers from the
\* highest-precedence applicable source: an overlapping annotation that carries a trust
\* value decides whatever the regions and policies are; a region decides only when there
\* is no such annotation, a policy only when neither exists, the default only when
\* nothing matches.
C1_StrictPrecedence ==
    AnnotationAware =>
        LET anns == ParsedNow
            byAnn == TrustedOverlapping(anns)
            byRegion == RegionsMatching(EffectiveConfig)
            byPolicy == PoliciesMatching(EffectiveConfig)
        IN /\ byAnn # {} =>
                /\ result.source = "annotation"
                /\ \E k \in byAnn : result.level = anns[k].trust
           /\ result.source = "annotation" => byAnn # {}
           /\ result.source = "region" => byAnn = {} /\ byRegion # {}
           /\ result.source = "policy" => byAnn = {} /\ byRegion = {} /\ byPolicy # {}
           /\ result.source = "default" => byAnn = {} /\ byRegion = {} /\ byPolicy = {}

\* the precedence example of the spec: READ_ONLY annotation on lines 2-4, AUTONOMOUS
\* region on lines 2-3, matching SUGGEST_ONLY policy, query on line 3
C1_Witness ==
    /\ op = "getTrustLevelWithAnnotations"
    /\ content = FileAnnotated /\ filePath = PathTs
    /\ lineStart = 3 /\ lineEnd = NoLine
    /\ \E k \in RegionsMatching(config) : config.regions[k].trust = "AUTONOMOUS"
    /\ \E k \in PoliciesMatching(config) : config.policies[k].trust = "SUGGEST_ONLY"
    /\ result.level = "READ_ONLY" /\ result.source = "annotation"

\* C3: every resolution returns a decision whose level is one of the four trust levels.
C3_TotalFourValued ==
    op \in ResolverOps => result.level \in TrustLevels

\* C6: in the file  begin(SUPERVISED) / marker(SUGGEST_ONLY) / method / method / end
\* a query on the inner annotated method (line 3) resolves to the inner annotation's
\* SUGGEST_ONLY, a query on the other method of the block (line 4) to the block's SUPERVISED.
C6_InnerOverridesBlock ==
    (/\ op = "getTrustLevelWithAnnotations"
     /\ content = FileNestedInBlock /\ filePath = PathTs
     /\ lineEnd = NoLine) =>
        /\ lineStart = 3 => result.level = "SUGGEST_ONLY" /\ result.source = "annotation"
        /\ lineStart = 4 => result.level = "SUPERVISED" /\ result.source = "annotation"

PolicyOrDefault ==
    LET cfg == EffectiveConfig
        np == normalizeSlashes(filePath)
        hits == {k \in 1..Len(cfg.policies) : matchesPattern(np, cfg.policies[k].pattern) # "false"}
    IN IF hits = {}
       THEN [level |-> cfg.default_trust, reason |-> "Default trust level",
             owner |-> Undefined, source |-> "default"]
       ELSE LET q == cfg.policies[Min(hits)] IN
            IF matchesPattern(np, q.pattern) = "throw"
            THEN [level |-> "none", reason |-> Undefined, owner |-> Undefined, source |-> "throw"]
            ELSE [level |-> q.trust, reason |-> q.reason, owner |-> q.owner, source |-> "policy"]

\* C8: when lineStart is omitted the annotation and region tiers are skipped: a decision
\* has source "policy" or "default", and it is the one the policies and the default give
\* for the path, whatever the file holds and whatever config.regions contains.
C8_NoStartLineSkipsTiers ==
    (op \in ResolverOps /\ lineStart = NoLine) =>
        /\ result.source \in {"policy", "default", "throw"}
        /\ result.level = PolicyOrDefault.level
        /\ result.reason = PolicyOrDefault.reason
        /\ result.owner = PolicyOrDefault.owner
        /\ result.source = PolicyOrDefault.source
        /\ result.intent = Undefined /\ result.constraints = <<>>

\* no start line (an end line alone is given), the file has a READ_ONLY annotation on
\* line 2 and a region of the file covers line 2: the policy decides
C8_Witness ==
    /\ op = "getTrustLevelWithAnnotations"
    /\ lineStart = NoLine /\ lineEnd = 2
    /\ content = FileAnnotated /\ filePath = PathTs
    /\ \E k \in 1..Len(config.regions) : config.regions[k].line_start <= 2
    /\ result.source = "policy"

(***************************************************************************)
(* Properties of the pre-edit hook                                         *)
(***************************************************************************)
\* C2: when the lines an edit touches are covered by an inline annotation with trust
\* READ_ONLY, the pre-edit hook blocks the edit (exit code 1), whatever the path-level
\* policy or default says.
C2_HookBlocksAnnotatedReadOnly ==
    (/\ op = "pre-edit"
     /\ collabDir /\ stdin = "edit" /\ trustFile
     /\ LET anns == ParsedNow IN
        \E k \in 1..Len(anns) :
            /\ anns[k].trust = "READ_ONLY"
            /\ lineStart <= anns[k].line_end
            /\ QueryEnd >= anns[k].line_start)
    => exitCode = 1

MatcherOps == {"matchesPattern", "hook_matchesPattern"}

\* C4: matchesPattern never throws; a pattern that does not compile to a regular
\* expression matches no path.
C4_NeverThrows ==
    op \in MatcherOps =>
        /\ matched # "throw"
        /\ ~newRegExp(regexSource(pattern)).ok => matched = "false"

\* the translation C5 describes, applied in one pass over the pattern:
\* `**` becomes `.*`, any other `*` becomes `[^/]*`, `?` becomes `.`
RECURSIVE GlobRegex(_)
GlobRegex(p) ==
    IF Len(p) = 0 THEN <<>>
    ELSE IF Len(p) >= 2 /\ p[1] = "*" /\ p[2] = "*"
         THEN <<".", "*">> \o GlobRegex(SubSeq(p, 3, Len(p)))
    ELSE IF p[1] = "*" THEN <<"[", "^", "/", "]", "*">> \o GlobRegex(Tail(p))
    ELSE IF p[1] = "?" THEN <<".">> \o GlobRegex(Tail(p))
    ELSE <<p[1]>> \o GlobRegex(Tail(p))

GlobMatches(path, p) ==
    LET re == newRegExp(<<"^">> \o GlobRegex(p) \o <<"$">>) IN
    /\ re.ok
    /\ regexTest(re, path) \/ regexTest(re, normalizeSlashes(path))

\* C5: matchesPattern(path, pattern) is true exactly when the whole path matches the
\* anchored expression with `**` as `.*`, `*` as `[^/]*` and `?` as `.`; `**` spans any
\* number of path segments.
C5_GlobSemantics ==
    op \in MatcherOps => (matched = "true" <=> GlobMatches(filePath, pattern))

(***************************************************************************)
(* Properties of scope detection.  The files of the parser runs hold no    *)
(* begin/end lines, so the parser returns one annotation for each maximal  *)
(* run of consecutive marker lines, in file order.                         *)
(***************************************************************************)
IsMarkerLine(line) == \E k \in 1..Len(line) : line[k] = "@collab"
IsBlankLine(line) == \A k \in 1..Len(line) : line[k] \in {" ", "\r"}
LeadingSpaces(line) == Min({k \in 1..Len(line) : line[k] \notin {" ", "\r"}}) - 1
IsCommentLine(line) ==
    /\ ~IsBlankLine(line)
    /\ line[LeadingSpaces(line) + 1] \in {"//", "#", "/*", "*"}

\* the last line of every run of consecutive marker lines (1-indexed)
RunEnds(lines) ==
    {m \in 1..Len(lines) :
        IsMarkerLine(lines[m]) /\ (m = Len(lines) \/ ~IsMarkerLine(lines[m + 1]))}

\* the first non-blank, non-comment line after line m; 0 when there is none
DefinitionLineAfter(lines, m) ==
    LET c == {d \in (m + 1)..Len(lines) : ~IsBlankLine(lines[d]) /\ ~IsCommentLine(lines[d])}
    IN IF c = {} THEN 0 ELSE Min(c)

RECURSIVE CountToken(_, _, _, _)
CountToken(lines, d, e, tok) ==
    IF d > e THEN 0
    ELSE Cardinality({k \in 1..Len(lines[d]) : lines[d][k] = tok}) + CountToken(lines, d + 1, e, tok)

\* the first line e >= d at whose end the count of '{' minus '}' since line d is zero
\* with at least one '{' counted; 0 when there is none
BraceBlockEnd(lines, d) ==
    LET c == {e \in d..Len(lines) :
                /\ CountToken(lines, d, e, "{") >= 1
                /\ CountToken(lines, d, e, "{") = CountToken(lines, d, e, "}")}
    IN IF c = {} THEN 0 ELSE Min(c)

\* the last non-blank line before the first non-blank line after d that is indented no
\* more than line d (line d itself when there is none)
IndentBlockEnd(lines, d) ==
    LET base == LeadingSpaces(lines[d])
        stops == {l \in (d + 1)..Len(lines) :
                    ~IsBlankLine(lines[l]) /\ LeadingSpaces(lines[l]) <= base}
        stop == IF stops = {} THEN Len(lines) + 1 ELSE Min(stops)
        body == {l \in (d + 1)..(stop - 1) : ~IsBlankLine(lines[l])}
    IN IF body = {} THEN d ELSE Max(body)

\* C9: in a brace-class file the scope of a single-line or merged annotation starts at
\* the first non-blank, non-comment line after the last marker line and ends at the first
\* line, scanning from there, at whose end the running count of '{' minus '}' is back to
\* zero after at least one '{'; nested braces on inner lines do not end it early.
C9_BraceScope ==
    (op = "parseAnnotations" /\ filePath = PathTs) =>
        LET lines == splitLF(content, <<>>)
            ends == RunEnds(lines)
        IN /\ Len(annotations) = Cardinality(ends)
           /\ \A m \in ends :
                LET k == Cardinality({x \in ends : x <= m})
                    d == DefinitionLineAfter(lines, m)
                    e == IF d > 0 THEN BraceBlockEnd(lines, d) ELSE 0
                IN (d > 0 /\ e > 0) =>
                      annotations[k].line_start = d /\ annotations[k].line_end = e

\* marker / `x {` / ` x{x}` / `}` : the scope is lines 2-4
C9_Witness ==
    /\ op = "parseAnnotations" /\ filePath = PathTs
    /\ content = joinLF(<<LnMarkerRO, LnOpen, LnNested, LnClose>>)
    /\ Len(annotations) = 1
    /\ annotations[1].line_start = 2 /\ annotations[1].line_end = 4

\* C26: in a brace-class file whose brace counter, scanning from the definition line to
\* the end of the file, never returns to zero after an opening brace (unbalanced braces,
\* or no '{' at all), the scope of the annotation is the definition line alone.
C26_UnbalancedIsOneLine ==
    (op = "parseAnnotations" /\ filePath = PathTs) =>
        LET lines == splitLF(content, <<>>)
            ends == RunEnds(lines)
        IN \A m \in ends :
                LET k == Cardinality({x \in ends : x <= m})
                    d == DefinitionLineAfter(lines, m)
                IN (d > 0 /\ BraceBlockEnd(lines, d) = 0) =>
                      annotations[k].line_start = d /\ annotations[k].line_end = d

\* marker / `x {` / ` x{x}` / blank : the brace of line 2 is never closed
C26_Witness ==
    /\ op = "parseAnnotations" /\ filePath = PathTs
    /\ content = joinLF(<<LnMarkerRO, LnOpen, LnNested, LnBlank>>)
    /\ Len(annotations) = 1
    /\ annotations[1].line_start = 2 /\ annotations[1].line_end = 2

\* C10: in a .py file the scope starts at the definition line and extends over the
\* following lines while every non-blank line is indented strictly more than the
\* definition line; the first non-blank line indented no more than it ends the block and
\* is excluded; blank lines never end it.
C10_IndentScope ==
    (op = "parseAnnotations" /\ filePath = PathPy) =>
        LET lines == splitLF(content, <<>>)
            ends == RunEnds(lines)
        IN /\ Len(annotations) = Cardinality(ends)
           /\ \A m \in ends :
                LET k == Cardinality({x \in ends : x <= m})
                    d == DefinitionLineAfter(lines, m)
                IN d > 0 =>
                      /\ annotations[k].line_start = d
                      /\ annotations[k].line_end = IndentBlockEnd(lines, d)

\* marker / def / indented / blank / indented / dedent : the scope is lines 2-5
C10_Witness ==
    /\ op = "parseAnnotations" /\ filePath = PathPy
    /\ \/ content = joinLF(<<LnPyMarker, LnCode, LnIndent1, LnIndent1, LnCode>>)
          /\ annotations[1].line_start = 2 /\ annotations[1].line_end = 4
       \/ content = joinLF(<<LnPyMarker, LnCode, LnIndent1, LnBlank, LnCode>>)
          /\ annotations[1].line_start = 2 /\ annotations[1].line_end = 3

(***************************************************************************)
(* Properties of explicit blocks.  A begin line holds the word             *)
(* @collab:begin followed by attributes, an end line the word @collab:end. *)
(***************************************************************************)
IsBeginLine(line) ==
    \E k \in 1..(Len(line) - 2) :
        line[k] = "@collab:begin" /\ line[k + 1] = " " /\ line[k + 2] \in AttrTokens
IsEndLine(line) == \E k \in 1..Len(line) : line[k] = "@collab:end"

\* the first end line after line b; 0 when there is none
FirstEndAfter(lines, b) ==
    LET c == {e \in (b + 1)..Len(lines) : IsEndLine(lines[e])}
    IN IF c = {} THEN 0 ELSE Min(c)

\* the blocks <<b, e>> of a file, read from line `from` on without nesting: the first
\* begin line opens a block, the first end line after it closes it (e = 0: never closed),
\* and reading resumes after the end line
RECURSIVE BlocksFrom(_, _)
BlocksFrom(lines, from) ==
    LET begins == {b \in from..Len(lines) : IsBeginLine(lines[b])} IN
    IF begins = {} THEN {}
    ELSE LET b == Min(begins)
             e == FirstEndAfter(lines, b)
         IN {<<b, e>>} \cup BlocksFrom(lines, IF e = 0 THEN b + 1 ELSE e + 1)

\* what a list of attribute words says for a key: the value of its last word for that key
GivenTrust(toks) ==
    LET hits == {k \in 1..Len(toks) :
                    toks[k] \in {"trust=\"READ_ONLY\"", "trust=\"SUGGEST_ONLY\"",
                                 "trust=\"SUPERVISED\"", "trust=\"AUTONOMOUS\""}}
    IN IF hits = {} THEN Undefined
       ELSE CASE toks[Max(hits)] = "trust=\"READ_ONLY\"" -> "READ_ONLY"
              [] toks[Max(hits)] = "trust=\"SUGGEST_ONLY\"" -> "SUGGEST_ONLY"
              [] toks[Max(hits)] = "trust=\"SUPERVISED\"" -> "SUPERVISED"
              [] OTHER -> "AUTONOMOUS"

GivenOwner(toks) ==
    LET hits == {k \in 1..Len(toks) :
                    toks[k] \in {"owner=\"auth-team\"", "owner=\"privacy-team\""}}
    IN IF hits = {} THEN Undefined
       ELSE IF toks[Max(hits)] = "owner=\"auth-team\"" THEN "auth-team" ELSE "privacy-team"

GivenIntent(toks) ==
    IF \E k \in 1..Len(toks) : toks[k] = "intent=\"Validate\"" THEN "Validate" ELSE Undefined

\* C11: a @collab:begin on line b closed by the first @collab:end after it, on line e,
\* gives exactly one annotation that carries the attributes of the begin line and whose
\* scope is the lines strictly between them: line_start = b + 1, line_end = e - 1.
C11_BlockScope ==
    op = "parseAnnotations" =>
        LET lines == splitLF(content, <<>>) IN
        \A blk \in BlocksFrom(lines, 1) :
            blk[2] > 0 =>
                Cardinality({k \in 1..Len(annotations) :
                    /\ annotations[k].line_start = blk[1] + 1
                    /\ annotations[k].line_end = blk[2] - 1
                    /\ annotations[k].trust = GivenTrust(lines[blk[1]])
                    /\ annotations[k].owner = GivenOwner(lines[blk[1]])}) = 1

\* begin / code / code / end / end : one annotation, lines 2-3 (the second end is ignored)
C11_Witness ==
    /\ op = "parseAnnotations"
    /\ content = joinLF(<<LnBegin, LnOpen, LnClose, LnEnd, LnEnd>>)
    /\ Len(annotations) = 1
    /\ annotations[1].line_start = 2 /\ annotations[1].line_end = 3
    /\ annotations[1].trust = "SUPERVISED"

\* C12: every annotation parseAnnotations returns has line_start <= line_end, also for
\* a begin immediately followed by its end, a begin that is never closed and a marker on
\* the last line of the file.
C12_StartNotAfterEnd ==
    op = "parseAnnotations" =>
        \A k \in 1..Len(annotations) : annotations[k].line_start <= annotations[k].line_end

\* C25: a @collab:begin on line b that no @collab:end follows gives an annotation with
\* the begin line's attributes whose scope runs from line b + 1 to the last line of the
\* file.
C25_UnclosedToEndOfFile ==
    op = "parseAnnotations" =>
        LET lines == splitLF(content, <<>>) IN
        \A blk \in BlocksFrom(lines, 1) :
            blk[2] = 0 =>
                \E k \in 1..Len(annotations) :
                    /\ annotations[k].line_start = blk[1] + 1
                    /\ annotations[k].line_end = Len(lines)
                    /\ annotations[k].trust = GivenTrust(lines[blk[1]])

(***************************************************************************)
(* Properties of merged annotations (files without begin/end lines)        *)
(***************************************************************************)
\* the first line of the run of consecutive marker lines that ends at line m
RunStart(lines, m) ==
    Min({a \in 1..m : \A l \in a..m : IsMarkerLine(lines[l])})

\* the words of lines a..m, in order
RECURSIVE WordsOf(_, _, _)
WordsOf(lines, a, m) ==
    IF a > m THEN <<>> ELSE lines[a] \o WordsOf(lines, a + 1, m)

\* C13: a run of consecutive marker lines gives exactly one annotation; each of its
\* attributes is the value of the last line of the run that gives the key (the union of
\* the lines' attributes, later lines overwriting earlier ones), and its scope is the one
\* detected from the last marker line of the run.
C13_MergedRun ==
    op = "parseAnnotations" =>
        LET lines == splitLF(content, <<>>)
            ends == RunEnds(lines)
        IN /\ Len(annotations) = Cardinality(ends)
           /\ \A m \in ends :
                LET k == Cardinality({x \in ends : x <= m})
                    words == WordsOf(lines, RunStart(lines, m), m)
                    d == DefinitionLineAfter(lines, m)
                    e == IF d > 0 THEN BraceBlockEnd(lines, d) ELSE 0
                IN /\ annotations[k].trust = GivenTrust(words)
                   /\ annotations[k].owner = GivenOwner(words)
                   /\ annotations[k].intent = GivenIntent(words)
                   /\ annotations[k].line_start = (IF d > 0 THEN d ELSE m)
                   /\ annotations[k].line_end = (IF d = 0 THEN m ELSE IF e > 0 THEN e ELSE d)

\* trust="SUGGEST_ONLY" owner="privacy-team" / owner="auth-team" / `x {` / `}` : one
\* annotation with the trust of the first line, the owner of the second, scoped to 3-4
C13_Witness ==
    /\ op = "parseAnnotations"
    /\ content = joinLF(<<LnMarkerSO, LnMarkerOwner, LnOpen, LnClose>>)
    /\ Len(annotations) = 1
    /\ annotations[1].trust = "SUGGEST_ONLY" /\ annotations[1].owner = "auth-team"
    /\ annotations[1].line_start = 3 /\ annotations[1].line_end = 4

(***************************************************************************)
(* Properties of attribute validation                                      *)
(***************************************************************************)
\* C14: a trust value outside the four levels is dropped while the owner, the intent
\* and the scope of the annotation are still produced, and an unrecognized key leaves
\* no trace; so the trust of a parsed annotation is absent or one of the four levels,
\* a decision with source "annotation" has one of the four levels, and an annotation
\* without a valid trust never decides a query.
C14_InvalidTrustDropped ==
    /\ op = "parseAnnotations" =>
          LET lines == splitLF(content, <<>>)
              ends == RunEnds(lines)
          IN /\ Len(annotations) = Cardinality(ends)
             /\ \A m \in ends :
                  LET k == Cardinality({x \in ends : x <= m})
                      words == WordsOf(lines, RunStart(lines, m), m)
                      d == DefinitionLineAfter(lines, m)
                  IN /\ annotations[k].trust \in TrustLevels \cup {Undefined}
                     /\ annotations[k].trust = GivenTrust(words)
                     /\ annotations[k].owner = GivenOwner(words)
                     /\ annotations[k].intent = GivenIntent(words)
                     /\ annotations[k].line_start = (IF d > 0 THEN d ELSE m)
    /\ op = "getTrustLevelWithAnnotations" =>
          LET anns == ParsedNow IN
          /\ result.source = "annotation" =>
                /\ result.level \in TrustLevels
                /\ TrustedOverlapping(anns) # {}
          /\ TrustedOverlapping(anns) = {} =>
                result.source = "default" /\ result.level = config.default_trust

\* trust="BOGUS" owner="auth-team" above a line of code: the annotation is produced
\* with its owner and its scope, without a trust
C14_Witness ==
    /\ op = "parseAnnotations"
    /\ content = joinLF(<<LnMarkerBogus, LnCode>>)
    /\ Len(annotations) = 1
    /\ annotations[1].trust = Undefined /\ annotations[1].owner = "auth-team"
    /\ annotations[1].line_start = 2 /\ annotations[1].line_end = 2

(***************************************************************************)
(* Properties of the fallbacks                                             *)
(***************************************************************************)
\* C15: when the target file cannot be read, parseAnnotations returns the empty list,
\* and the annotation-aware resolver answers from the lower tiers: its level is the one
\* getTrustLevel gives for the same config, path and line range, decided by a region,
\* else a policy, else the default.
C15_UnreadableFallsThrough ==
    content = Unreadable =>
        /\ op = "parseAnnotations" => annotations = <<>>
        /\ AnnotationAware =>
              LET lower == getTrustLevel(EffectiveConfig, filePath, lineStart, lineEnd)
                  byRegion == RegionsMatching(EffectiveConfig)
              IN /\ result.level = lower.level
                 /\ result.source # "annotation"
                 /\ byRegion # {} =>
                       /\ result.source = "region"
                       /\ result.level = EffectiveConfig.regions[Min(byRegion)].trust
                 /\ byRegion = {} =>
                       /\ result.source = PolicyOrDefault.source
                       /\ result.level = PolicyOrDefault.level

\* the file is missing, a region of the config covers the queried line: the region decides
C15_Witness ==
    /\ op = "getTrustLevelWithAnnotations"
    /\ content = Unreadable
    /\ lineStart = 2
    /\ result.source = "region" /\ result.level = "AUTONOMOUS"

(***************************************************************************)
(* Properties of line splitting                                            *)
(***************************************************************************)
\* the text with every CRLF and every lone CR replaced by LF
RECURSIVE NormalizeEol(_)
NormalizeEol(text) ==
    IF Len(text) = 0 THEN <<>>
    ELSE IF text[1] = "\r"
         THEN IF Len(text) >= 2 /\ text[2] = "\n"
              THEN <<"\n">> \o NormalizeEol(SubSeq(text, 3, Len(text)))
              ELSE <<"\n">> \o NormalizeEol(Tail(text))
         ELSE <<text[1]>> \o NormalizeEol(Tail(text))

NoRules == EffectiveConfig.policies = <<>> /\ EffectiveConfig.regions = <<>>

IsDefaultDecision ==
    /\ result.level = EffectiveConfig.default_trust
    /\ result.source = "default"
    /\ result.reason = "Default trust level"

\* C17 as stated: with an empty policies list and no regions every resolution, for any
\* path and any query, yields default_trust with source "default" and reason
\* "Default trust level".
C17_AlwaysDefault ==
    (op \in ResolverOps /\ NoRules) => IsDefaultDecision

\* C17 amended: with an empty policies list and no regions the resolution yields
\* default_trust with source "default" and reason "Default trust level", unless the
\* query gives a start line and an annotation of the file that carries a trust value
\* overlaps the queried lines (the annotation then decides).
C17_DefaultFallback ==
    (op \in ResolverOps /\ NoRules) =>
        \/ IsDefaultDecision
        \/ /\ AnnotationAware
           /\ TrustedOverlapping(ParsedNow) # {}
           /\ result.source = "annotation"

\* no policy, no region, default AUTONOMOUS, a query on line 1 of the annotated file
\* (the annotation covers lines 2-4): the default decides
C17_Witness ==
    /\ op = "getTrustLevelWithAnnotations"
    /\ config.policies = <<>> /\ config.regions = <<>>
    /\ config.default_trust = "AUTONOMOUS"
    /\ content = FileAnnotated /\ filePath = PathTs
    /\ lineStart = 1 /\ lineEnd = NoLine
    /\ result.level = "AUTONOMOUS" /\ result.source = "default"

(***************************************************************************)
(* Properties of the proposal store                                        *)
(***************************************************************************)
\* the proposal with this id is stored with this status, and a listing with that
\* status, or with "all", shows it
StoredAs(files, id, status) ==
    /\ id \in DOMAIN files
    /\ yamlParse(files[id]).status = status
    /\ \E x \in listProposals(files, status) : x.id = id
    /\ \E x \in listProposals(files, "all") : x.id = id

\* C18: when collab_apply_proposal succeeds for a stored proposal, the proposal stays
\* stored with status "approved" and is listed under "approved" and "all"; when
\* collab_reject_proposal is called for a stored proposal, it stays stored with status
\* "rejected" and is listed under "rejected" and "all".
C18_ApplyMarksApproved ==
    [][/\ (op' = "collab_apply_proposal" /\ "status" \in DOMAIN reply')
            => StoredAs(proposalFiles', arg', "approved")
       /\ (op' = "collab_reject_proposal" /\ arg' \in DOMAIN proposalFiles)
            => StoredAs(proposalFiles', arg', "rejected")]_vars

\* C20: the store is a map keyed by id.  After saveProposal(p) exactly one stored
\* proposal has p's id and it equals p, the others are as before; after
\* deleteProposal(id) no stored proposal has that id and the others are as before;
\* deleting an id that is not stored changes nothing and returns normally.
C20_StoreIsMap ==
    [][LET before == loadProposals(proposalFiles)
           after == loadProposals(proposalFiles')
       IN /\ op' = "saveProposal" =>
                /\ Cardinality({q \in after : q.id = arg'.id}) = 1
                /\ arg' \in after
                /\ {q \in after : q.id # arg'.id} = {q \in before : q.id # arg'.id}
          /\ op' = "deleteProposal" =>
                /\ \A q \in after : q.id # arg'
                /\ after = {q \in before : q.id # arg'}
                /\ (\A q \in before : q.id # arg') => proposalFiles' = proposalFiles
                /\ reply' = Undefined]_vars

\* a proposal without rationale was saved over an older one with the same id while
\* another proposal is stored: it is loaded back as saved
C20_Witness ==
    /\ op = "saveProposal"
    /\ arg.rationale = Undefined /\ arg.status = "approved"
    /\ Cardinality(DOMAIN proposalFiles) = 2
    /\ arg \in loadProposals(proposalFiles)
    /\ Cardinality({q \in loadProposals(proposalFiles) : q.id = arg.id}) = 1

(***************************************************************************)
(* Properties of initialization                                            *)
(***************************************************************************)
\* C19: initializeCollab never overwrites an existing trust.yaml or config.yaml: after
\* it, loadTrustConfig returns the configuration that was stored before it, an existing
\* config.yaml holds what it held, and an initializeCollab that follows another one
\* changes nothing.
C19_InitPreservesExisting ==
    [][op' = "initializeCollab" =>
          /\ trustFile =>
                /\ loadTrustConfig(trustFile', config') = loadTrustConfig(trustFile, config)
                /\ config' = config
          /\ configYaml # "absent" => configYaml' = configYaml
          /\ op = "initializeCollab" =>
                <<collabDir', trustFile', config', configYaml'>>
                    = <<collabDir, trustFile, config, configYaml>>]_vars

\* the custom policy saved before the re-initialization is still loaded after it
C19_Witness ==
    /\ op = "initializeCollab"
    /\ configYaml = "custom"
    /\ \E i \in 1..Len(config.policies) : config.policies[i] = CustomPolicy
    /\ loadTrustConfig(trustFile, config) = config

(***************************************************************************)
(* Properties of Ruby files                                                *)
(***************************************************************************)
\* C21: in a .rb file a single-line annotation applies to the whole class or method that
\* follows it, found by indentation as in Python: a query on the definition line or on
\* any line of the indented body below it resolves to the annotation's trust.
C21_RubyClassBody ==
    (op = "getTrustLevelWithAnnotations" /\ filePath = PathRb) =>
        LET lines == splitLF(content, <<>>) IN
        \A m \in RunEnds(lines) :
            LET d == DefinitionLineAfter(lines, m) IN
            (d > 0 /\ lineStart \in d..IndentBlockEnd(lines, d)) =>
                result.level = "READ_ONLY" /\ result.source = "annotation"

(***************************************************************************)
(* Properties of directory patterns                                        *)
(***************************************************************************)
\* the segments of a path: the maximal runs of characters other than "/"
RECURSIVE Segments(_, _)
Segments(path, cur) ==
    IF Len(path) = 0 THEN {cur}
    ELSE IF path[1] = "/" THEN {cur} \cup Segments(Tail(path), <<>>)
    ELSE Segments(Tail(path), Append(cur, path[1]))

\* the d of a pattern **/d/**
DirOf(p) == SubSeq(p, 4, Len(p) - 3)

\* C22: a pattern **/d/** matches a path only when d is a whole segment of the path
\* (separators normalized), never when d occurs only inside a longer segment:
\* **/auth/** matches src/auth/login.ts and does not match src/authorization/x.ts.
C22_NoPartialSegment ==
    op \in MatcherOps =>
        /\ matched # "throw"
        /\ matched = "true" => DirOf(pattern) \in Segments(normalizeSlashes(filePath), <<>>)
        /\ (pattern = PatAuth /\ filePath = PathLogin) => matched = "true"
        /\ (pattern = PatAuth /\ filePath = PathAuthorization) => matched = "false"

\* **/auth/** against src/authorization/x.ts, where auth is a proper prefix of a segment
C22_Witness ==
    /\ op = "matchesPattern"
    /\ pattern = PatAuth /\ filePath = PathAuthorization
    /\ DirOf(pattern) \notin Segments(filePath, <<>>)
    /\ matched = "false"

(***************************************************************************)
(* Properties of repeated calls                                            *)
(***************************************************************************)
\* C23: every parseAnnotations call on the unmodified file returns the list the first
\* call returned (same attributes, same line_start and line_end), whatever parse and
\* resolve calls on this or other files ran in between; the only state that outlives a
\* call, ATTR_PATTERN.lastIndex, is back at 0 when a call returns.
C23_ParseDeterministic ==
    /\ (op = "parseAnnotations" /\ arg.file = filePath) =>
            /\ annotations = reply.first
            /\ annotations = parseAnnotations(filePath, content)
    /\ lastIndex = 0

\* a second or later parse of a file with a trusted annotation, after a resolve call
C23_Witness ==
    /\ op = "parseAnnotations" /\ arg.file = filePath
    /\ reply.calls >= 2
    /\ result # NoResult
    /\ Len(annotations) >= 1
    /\ annotations[1].trust \in TrustLevels

(***************************************************************************)
(* Equivalence of the two copies of getTrustLevel                          *)
(***************************************************************************)
SameDecision(a, b) == a.level = b.level /\ a.reason = b.reason /\ a.owner = b.owner

\* what collab_check_trust answers for the file when called without lines
CheckTrustWithoutLines == getTrustLevel(loadTrustConfig(trustFile, config), filePath, NoLine, NoLine)

\* C27: for every config, path and optional line range the hook's getTrustLevel and the
\* server's return the same level, reason and owner (and raise on the same inputs); so
\* whenever the pre-edit hook resolves a level it is the one collab_check_trust without
\* lines reports for the file, and the hook blocks exactly the files it reports READ_ONLY.
C27_HookEqualsServer ==
    /\ op = "hook_getTrustLevel" =>
            SameDecision(result, getTrustLevel(config, filePath, lineStart, lineEnd))
    /\ op = "getTrustLevel" =>
            SameDecision(result, hook_getTrustLevel(config, filePath, lineStart, lineEnd))
    /\ op = "pre-edit" =>
            /\ result # NoResult => SameDecision(result, CheckTrustWithoutLines)
            /\ exitCode = 1 <=> CheckTrustWithoutLines.level = "READ_ONLY"
    /\ (op = "collab_check_trust" /\ lineStart = NoLine) =>
            LET hook == preEditMain(collabDir, stdin, trustFile, config, filePath) IN
            /\ hook.trust # NoResult => SameDecision(result, hook.trust)
            /\ result.level = "READ_ONLY" <=> hook.code = 1

\* a region and a policy both apply to the queried lines; the hook's copy answers from
\* the region
C27_Witness ==
    /\ op = "hook_getTrustLevel"
    /\ lineStart # NoLine
    /\ RegionsMatching(config) # {}
    /\ PoliciesMatching(config) # {}
    /\ result.level = config.regions[Min(RegionsMatching(config))].trust
    /\ result.level # config.policies[Min(PoliciesMatching(config))].trust

(***************************************************************************)
(* Properties of concurrent tool calls                                     *)
(***************************************************************************)
\* caller c receives the answer "approved" in this step
AnswersApproved(c) ==
    /\ calls[c].pc # "done"
    /\ calls'[c].pc = "done"
    /\ calls'[c].answer.status = "approved"

\* C28: a proposal is approved at most once: when a collab_apply_proposal call answers
\* "approved" for an id, no other call has answered "approved" for that id and no
\* collab_reject_proposal call for that id has completed.
C28_ApprovedAtMostOnce ==
    [][\A c \in Callers :
          AnswersApproved(c) =>
              \A other \in Callers \ {c} :
                  (calls[other].pc = "done" /\ calls[other].id = calls[c].id) =>
                      calls[other].answer.status \notin {"approved", "rejected"}]_vars

\* C29: no recorded intent is lost: once the saveIntent calls in flight have completed,
\* loadIntents for the file returns the intent of every completed call, whatever the
\* interleaving of their load and write steps was.
C29_NoIntentLost ==
    (\A c \in Callers : calls[c].pc \in {"idle", "done"}) =>
        LET loaded == loadIntents(intentFile) IN
        \A c \in Callers :
            calls[c].pc = "done" => \E k \in 1..Len(loaded) : loaded[k] = calls[c].intent

====
